---- MODULE Spec2Model ----
(***************************************************************************)
(* TRINERA backend: the live-mode WebSocket orchestrator                   *)
(* (backend/app/routes/live_mode.py) with the services it calls            *)
(* (vision_analyzer.py, huggingface.py, ollama.py, edge_tts_service.py).   *)
(*                                                                         *)
(* Every connection is one asyncio coroutine running                       *)
(* websocket_live_endpoint.  A step of the model is the code one coroutine *)
(* runs between two suspension points of the event loop: receive_json,     *)
(* a send on a websocket, the language-model call and the speech call.     *)
(* analyze_image_heavy contains no await: its remote call is a blocking    *)
(* call made on the event-loop thread.                                     *)
(*                                                                         *)
(* Record constructors list their fields in the order in which the field  *)
(* names first occur in this module, which is the order TLC keeps them in. *)
(***************************************************************************)
EXTENDS Integers, Sequences, FiniteSets, TLC

\* ---------------------------------------------------------------- bounds
MaxLiveSessions == 2   \* LiveSession objects allocated in one behaviour
MaxVoiceRuns == 2      \* voice pipeline runs started in one behaviour
MaxSessions == 2       \* identifiers uuid4 hands out in one behaviour
MaxTime == 2           \* the clock runs from 0 to MaxTime
MaxMessages == 2       \* messages a chat Session comes to hold
TTL == 1               \* session_store.ttl (SESSION_TTL), in clock ticks
\* messages the database comes to hold for one session: a Session loaded
\* from the database is saved again whole by the next update_session
MaxDbMessages == 2 * MaxMessages
MaxStored == 2         \* messages the Session object comes to hold
MaxHistory == 1        \* largest max_history the context manager is built with

Conns == {1, 2}
SessionIds == {"s1", "s2"}   \* the {session_id} path parameter

\* ------------------------------------------------------ optional values
\* Python's None is the empty sequence, a present value v is <<v>>.
None == <<>>
Some(v) == <<v>>
IsNone(o) == o = <<>>
Val(o) == o[1]

\* ------------------------------------------------------------ transcripts
\* A transcript is a sequence of characters.
Lower(ch) ==
    CASE ch = "A" -> "a" [] ch = "B" -> "b" [] ch = "C" -> "c" [] ch = "D" -> "d"
      [] ch = "E" -> "e" [] ch = "F" -> "f" [] ch = "G" -> "g" [] ch = "H" -> "h"
      [] ch = "I" -> "i" [] ch = "J" -> "j" [] ch = "K" -> "k" [] ch = "L" -> "l"
      [] ch = "M" -> "m" [] ch = "N" -> "n" [] ch = "O" -> "o" [] ch = "P" -> "p"
      [] ch = "Q" -> "q" [] ch = "R" -> "r" [] ch = "S" -> "s" [] ch = "T" -> "t"
      [] ch = "U" -> "u" [] ch = "V" -> "v" [] ch = "W" -> "w" [] ch = "X" -> "x"
      [] ch = "Y" -> "y" [] ch = "Z" -> "z" [] OTHER -> ch

\* str.lower()
LowerStr(s) == [i \in 1..Len(s) |-> Lower(s[i])]

\* Python's `k in s` for strings: k occurs in s as a contiguous substring.
Contains(s, k) ==
    \E i \in 0..(Len(s) - Len(k)) : \A j \in 1..Len(k) : s[i + j] = k[j]

IsWhitespace(ch) == ch \in {" ", "\t", "\n"}

\* `transcript.strip()` is truthy: some character is not whitespace.
StripNonEmpty(s) == \E i \in 1..Len(s) : ~IsWhitespace(s[i])

\* pest_keywords of match_intent.  The Hindi keywords are spelled with the
\* names of their code points.
pest_keywords == {
    <<"p","e","s","t">>, <<"b","u","g">>, <<"i","n","s","e","c","t">>,
    <<"w","h","a","t"," ","i","s"," ","t","h","i","s">>,
    <<"i","d","e","n","t","i","f","y">>, <<"t","h","i","s"," ","i","s">>,
    <<"a","t","t","a","c","k","i","n","g">>, <<"e","a","t","i","n","g">>,
    <<"d","a","m","a","g","e">>, <<"p","r","o","b","l","e","m">>,
    <<"d","i","s","e","a","s","e">>, <<"w","h","a","t"," ","p","e","s","t">>,
    <<"w","h","i","c","h"," ","p","e","s","t">>,
    <<"n","a","m","e"," ","t","h","i","s">>,
    <<"t","e","l","l"," ","m","e"," ","a","b","o","u","t">>,
    <<"a","p","h","i","d">>, <<"w","h","i","t","e","f","l","y">>,
    <<"b","e","e","t","l","e">>,
    <<"c","a","t","e","r","p","i","l","l","a","r">>, <<"w","o","r","m">>,
    <<"U+0915","U+0940","U+091F">>,
    <<"U+0930","U+094B","U+0917">>,
    <<"U+0938","U+092E","U+0938","U+094D","U+092F","U+093E">>,
    <<"U+092F","U+0939"," ","U+0915","U+094D","U+092F","U+093E"," ","U+0939","U+0948">>,
    <<"U+092A","U+0939","U+091A","U+093E","U+0928">> }

\* is_pest_query of match_intent
IsPestQuery(user_query) ==
    \E keyword \in pest_keywords : Contains(LowerStr(user_query), keyword)

\* The transcripts a client sends: empty, blank, pest-related (in upper
\* case) and a general question.
T_empty == <<>>
T_blank == <<" ">>
T_bug == <<"B","U","G","?">>
T_rain == <<"r","a","i","n","?">>
Transcripts == {T_empty, T_blank, T_bug, T_rain}

\* ------------------------------------------------------------ JSON values
\* A JSON field value that is a string, or a value of another type.
JStr(s) == [s |-> s, t |-> "str"]
JNum == [s |-> <<>>, t |-> "num"]

\* ---------------------------------------------------------------- images
\* frame_data is a string; it is held as its comma-separated parts, so that
\* frame_data.split(",") is the sequence itself.
DataUriPrefix == "data:image/jpeg;base64"
FrameDatas == { <<"B64_IMG1">>, <<DataUriPrefix, "B64_IMG2">>,
                <<"B64_TXT">>, <<"B64_BADPAD">> }

\* base64.b64decode: the bytes, or None when it raises binascii.Error.
b64decode(part) ==
    CASE part = "B64_IMG1" -> Some("IMG1")
      [] part = "B64_IMG2" -> Some("IMG2")
      [] part = "B64_TXT" -> Some("TXT")
      [] OTHER -> None

\* PIL.Image.open: <<width, height>>, or None when the bytes are no image.
ImageOpen(image_bytes) ==
    CASE image_bytes = "IMG1" -> Some(<<10, 10>>)
      [] image_bytes = "IMG2" -> Some(<<20, 20>>)
      [] OTHER -> None

\* Confidences are held in thousandths: 0.5 is 500.
\* VisionAnalyzer._fallback_analysis.  The mutant has no except clause: it
\* reports every input as a captured image.
M_fallback_analysis(image_bytes) ==
    [ has_relevant_content |-> TRUE, objects_detected |-> <<>>,
      confidence |-> 500, description |-> "Image captured (WxH)" ]

_fallback_analysis(image_bytes) ==
    IF ~IsNone(ImageOpen(image_bytes))
    THEN [ has_relevant_content |-> TRUE, objects_detected |-> <<>>,
           confidence |-> 500, description |-> "Image captured (WxH)" ]
    ELSE [ has_relevant_content |-> FALSE, objects_detected |-> <<>>,
           confidence |-> 0, description |-> "Unable to analyze image" ]

\* VisionAnalyzer.quick_analyze: returns the fallback analysis before any
\* remote call (the statements after the return are unreachable); it never
\* suspends.
quick_analyze(image_bytes) == _fallback_analysis(image_bytes)

\* VisionAnalyzer.match_intent.  The mutant ORs the two signals.
M_match_intent(user_query, vision_result) ==
    LET is_pest_query == IsPestQuery(user_query)
        has_content == vision_result.has_relevant_content
    IN  [ is_pest_query |-> is_pest_query,
          should_call_heavy_model |-> is_pest_query \/ has_content, match_score |-> 0, reason |-> "",
          has_visual_content |-> has_content ]

\* A second mutant counts a confidence of exactly 0.5 as above the threshold.
M_match_intent_threshold(user_query, vision_result) ==
    LET is_pest_query == IsPestQuery(user_query)
        has_content == vision_result.has_relevant_content
    IN  [ is_pest_query |-> is_pest_query,
          should_call_heavy_model |-> is_pest_query /\ has_content,
          match_score |-> (IF is_pest_query THEN 500 ELSE 0)
                          + (IF has_content THEN 300 ELSE 0)
                          + (IF vision_result.confidence >= 500 THEN 200 ELSE 0), reason |-> "",
          has_visual_content |-> has_content ]

match_intent(user_query, vision_result) ==
    LET is_pest_query == IsPestQuery(user_query)
        has_content == vision_result.has_relevant_content
        confidence == vision_result.confidence
        should_detect == is_pest_query /\ has_content
        match_score == (IF is_pest_query THEN 500 ELSE 0)
                       + (IF has_content THEN 300 ELSE 0)
                       + (IF confidence > 500 THEN 200 ELSE 0)
        reason ==
            IF should_detect
            THEN "Pest-related query with relevant objects detected"
            ELSE IF is_pest_query /\ ~has_content
            THEN "Pest query but no relevant objects in frame"
            ELSE IF ~is_pest_query /\ has_content
            THEN "General question, skipping heavy detection"
            ELSE "No pest query and no relevant content"
    IN  [ is_pest_query |-> is_pest_query,
          should_call_heavy_model |-> should_detect, match_score |-> match_score,
          reason |-> reason,
          has_visual_content |-> has_content ]

\* ------------------------------------------------------- heavy detector
\* What the remote classifier call (_get_client + client.predict) does:
\* it returns a value of some shape, or it raises.
RemoteOutcomes == {
    [ confidence |-> 900, kind |-> "dict", label |-> "Aphid" ],
    [ confidence |-> 0, kind |-> "other", label |-> "" ],
    [ confidence |-> 0, kind |-> "raise", label |-> "" ] }

\* The record analyze_image_heavy returns from its except clause.
ErrorRecord ==
    [ confidence |-> 0, description |-> "Detection failed", pest_name |-> "Error",
      severity |-> "Unknown" ]

\* HuggingFaceService.analyze_image_heavy after the remote call answered:
\* parse the result, map the confidence to a severity.  The mutant rates a
\* confidence of exactly 0.8 High.
M_ParseHeavyResult(result) ==
    IF result.kind = "raise" THEN ErrorRecord
    ELSE LET confidence == IF result.kind \in {"dict", "tuple"} THEN result.confidence
                           ELSE IF result.kind = "str" THEN 800
                           ELSE 0
         IN  [ confidence |-> confidence,
               description |-> "Detected",
               pest_name |-> IF result.label # "" THEN result.label ELSE "Unknown",
               severity |-> IF confidence >= 800 THEN "High"
                            ELSE IF confidence > 500 THEN "Medium"
                            ELSE "Low" ]
ParseHeavyResult(result) ==
    IF result.kind = "raise" THEN ErrorRecord
    ELSE LET pest_name == IF result.kind = "dict" THEN result.label
                          ELSE IF result.kind = "tuple"
                          THEN (IF result.label # "" THEN result.label ELSE "Unknown")
                          ELSE IF result.kind = "str" THEN result.label
                          ELSE "Unknown"
             confidence == IF result.kind \in {"dict", "tuple"} THEN result.confidence
                           ELSE IF result.kind = "str" THEN 800
                           ELSE 0
             severity == IF confidence > 800 THEN "High"
                         ELSE IF confidence > 500 THEN "Medium"
                         ELSE "Low"
         IN  [ confidence |-> confidence, description |-> "Detected",
               pest_name |-> pest_name, severity |-> severity ]

\* error_pest_result of _call_heavy_pest_detection's except clause
error_pest_result ==
    [ confidence |-> 0, description |-> "str(e)",
      pest_name |-> "Configuration Error", severity |-> "Unknown" ]

\* ------------------------------------------------- language model, speech
\* OllamaService.chat returns a reply text or raises.
LlmOutcomes == {"advice", "RAISE"}
\* _generate_and_send_tts: text_to_speech returns audio and the file is
\* saved, or saving the file fails, or text_to_speech raises.
TtsOutcomes == {"ok", "save_fail", "raise"}

\* ------------------------------------------------------- outbound events
Ev(type, text, pd, analysis, is_analyzing) ==
    [ type |-> type, text |-> text, analysis |-> analysis, is_analyzing |-> is_analyzing,
      pest_detection |-> pd ]

WelcomeEv(lang) ==
    Ev("welcome", IF lang = "english" THEN "Live mode activated (en)"
                  ELSE "Live mode activated (hi)", None, None, None)
NotInitializedEv ==
    Ev("error", "Session not initialized. Send init message first.", None, None, None)
FrameProcessedEv(vision_result) ==
    Ev("frame_processed", "", None,
       Some([ has_relevant_content |-> vision_result.has_relevant_content,
              confidence |-> vision_result.confidence,
              description |-> vision_result.description ]), None)
StatusEv(lang) ==
    Ev("status", IF lang = "english" THEN "Analyzing the pest (en)"
                 ELSE "Analyzing the pest (hi)", None, None, Some(TRUE))
\* error_msg of _call_heavy_pest_detection's except clause
error_msg == "Pest detection model is not configured yet."
ErrorResponseEv == Ev("response", error_msg, Some(error_pest_result), None, Some(FALSE))
\* The response event; the mutant always attaches a detection record.
M_ResponseEv(text, pd) == Ev("response", text, Some(ErrorRecord), None, None)
ResponseEv(text, pd) == Ev("response", text, pd, None, None)
GenericErrorEv(message) == Ev("error", message, None, None, None)
TtsAudioEv(how) == Ev("tts_audio", how, None, None, None)
\* The text_only event of _generate_and_send_tts's except clause: the text
\* it was given and the fixed error note.
TextOnlyEv(text) ==
    [ type |-> "text_only", text |-> text, analysis |-> None,
      is_analyzing |-> None, pest_detection |-> None,
      error |-> "TTS temporarily unavailable - showing text only" ]
\* The stop_tts event; the mutant sends a status event in its place.
M_StopTtsEv == Ev("status", "Listening...", None, None, None)
StopTtsEv == Ev("stop_tts", "Listening...", None, None, None)
PongEv == Ev("pong", "", None, None, None)

\* ------------------------------------------------------- inbound messages
\* What receive_json is given: text that is no JSON ("invalid"), JSON that
\* is no object ("array"), or an object with a type and the fields the
\* endpoint reads (a missing text is the default "").
Msg(json, type, language, image, text) ==
    [ type |-> type, text |-> text, json |-> json,
      language |-> language, image |-> image ]
\* receive_json raising WebSocketDisconnect is held as a message too.
DisconnectMsg == Msg("disconnect", "", None, None, JStr(T_empty))

InboundMessages ==
    { Msg("invalid", "", None, None, JStr(T_empty)),
      Msg("array", "", None, None, JStr(T_empty)) }
    \cup { Msg("object", "init", l, None, JStr(T_empty)) : l \in {None, Some("hindi")} }
    \cup { Msg("object", "frame", None, i, JStr(T_empty)) :
              i \in {None} \cup { Some(f) : f \in FrameDatas } }
    \cup { Msg("object", "voice", None, None, t) :
              t \in {JNum} \cup { JStr(x) : x \in Transcripts } }
    \cup { Msg("object", ty, None, None, JStr(T_empty)) :
              ty \in {"interrupt", "ping", "hello"} }

\* ----------------------------------------------------------------- state
VARIABLES
    \* LiveModeManager (the singleton live_manager)
    active_sessions,      \* session id -> index into live_sessions, 0: absent
    active_connections,   \* session id -> connection (its websocket), 0: absent
    latest_vision,        \* session id -> None or the cached triage and image
    latest_audio,         \* session id -> None or the registered audio file
    live_sessions,        \* the LiveSession objects allocated so far
    space_configured,     \* HF_MODEL_ID names a space other than the default
    temp_files,           \* connections whose run's temporary image file exists
    \* one coroutine websocket_live_endpoint per connection
    pc,                   \* where the coroutine is suspended
    sid,                  \* its session_id path parameter
    session_initialized,  \* its local session_initialized
    language,             \* its local language
    run,                  \* the locals of its pipeline run
    \* the traffic of the last step
    rx,                   \* the message received in this step, and by whom
    tx                    \* the events sent in this step, each with its receiver

mgrVars == <<active_sessions, active_connections, latest_vision, latest_audio,
             live_sessions, space_configured, temp_files>>
connVars == <<pc, sid, session_initialized, language, run>>

\* The session store of the chat and pest-detection routes
\* (services/session_manager.py) and the durable store behind it
\* (services/database.py).
VARIABLES
    sessions,        \* session_store.sessions: identifier -> None or the Session
    db_sessions,     \* the sessions collection: identifier -> None or the document
    db_messages,     \* the messages collection: identifier -> messages stored
    mongo,           \* database_service.is_connected()
    now,             \* datetime.now()
    next_id,         \* the identifiers uuid4 has not yet handed out
    chat_req,        \* the Session a chat request holds across its awaits
    ret              \* the store call of the last step and what it returned

storeVars == <<sessions, db_sessions, db_messages, mongo, now, next_id, chat_req, ret>>

VARIABLES
    subject,         \* one Session object, its methods called directly
    answer           \* what the last call on it (or with it) returned

unitVars == <<subject, answer>>
vars == <<mgrVars, connVars, rx, tx, storeVars, unitVars>>

\* ----------------------------------------------------- chat session store
\* Session identifiers are strings.  Uuid(k) is the k-th value uuid4
\* returns, Oid(k) the ObjectId MongoDB gives the document of session k,
\* UnknownId a well-formed identifier that was never handed out.
Uuids == 1..MaxSessions
Uuid(k) == [ kind |-> "uuid", n |-> k ]
Oid(k) == [ kind |-> "oid", n |-> k ]
UnknownId == Uuid(0)
\* The session_id argument of a request: absent, or one of the strings.
\* No request spells an identifier uuid4 has yet to hand out: Uuid(0) and
\* Oid(0) stand for the strings that name nothing.
RequestIds ==
    {None} \cup { Some(Uuid(k)) : k \in 0..(next_id - 1) }
           \cup { Some(Oid(k)) : k \in 0..(next_id - 1) }

\* Session (dataclass): a new one has a fresh id and created_at = now.
\* messages counts the entries of session.messages, saved those of them
\* that update_session has flagged saved_to_db.
Session(k, created_at) ==
    [ created_at |-> created_at, id |-> k, messages |-> 0, saved |-> 0,
      detected_pests |-> <<>> ]

\* Session.is_expired.  The mutant compares with >=.
M_is_expired(session, ttl_seconds) == now - session.created_at >= ttl_seconds
is_expired(session, ttl_seconds) == now - session.created_at > ttl_seconds

NoRet == [ result |-> None, id |-> None, op |-> "", raised |-> FALSE ]
Ret(op, id, result, raised) == [ result |-> result, id |-> id, op |-> op, raised |-> raised ]

\* InMemorySessionStore.__init__, MongoDBService.__init__
StoreInit ==
    /\ sessions = [k \in Uuids |-> None]
    /\ db_sessions = [k \in Uuids |-> None]
    /\ db_messages = [k \in Uuids |-> 0]
    /\ mongo \in BOOLEAN
    /\ now = 0
    /\ next_id = 1
    /\ chat_req = None
    /\ ret = NoRet

\* ------------------------------------------------------ one Session object
\* A Session with its message list and pest fields spelled out, for the
\* methods of Session and for the context builder.
Roles == {"user", "assistant"}
Contents == {"q", "a"}
PestNames == {"aphids", "armyworm"}
\* pest_info arguments: None, the empty dict, or a dict with a label
EmptyDict == [ label |-> "", empty |-> TRUE ]
PestInfo(pest_name) == [ label |-> pest_name, empty |-> FALSE ]
PestInfos == {None, Some(EmptyDict)} \cup { Some(PestInfo(n)) : n \in PestNames }
\* Python truth value of an Optional[Dict]
Truthy(pest_info) == ~IsNone(pest_info) /\ ~Val(pest_info).empty

\* Session(): created_at = datetime.now(), empty lists, no pest info
NewSession ==
    [ created_at |-> now, messages |-> <<>>, detected_pests |-> <<>>,
      latest_pest_info |-> None ]

NoAnswer == [ op |-> "" ]

UnitInit ==
    /\ subject = [ created_at |-> 0, messages |-> <<>>, detected_pests |-> <<>>,
                   latest_pest_info |-> None ]
    /\ answer = NoAnswer

\* LiveSession.__init__; owner is the connection whose init created it.
\* last_frame and last_frame_analysis are written by process_frame and read
\* by get_session_info and get_visual_context only; they are left out.
\* The mutant ignores the requested language.
M_LiveSession(session_id, lang, owner) ==
    [ language |-> "english", messages |-> <<>>,
      owner |-> owner, is_active |-> TRUE ]

LiveSession(session_id, lang, owner) ==
    [ language |-> lang, messages |-> <<>>,
      owner |-> owner, is_active |-> TRUE ]

\* The locals of a pipeline run; NoRun outside a run.  log holds the events
\* the earlier steps of the run sent.
NoRun == [ user_query |-> <<>>, image_bytes |-> None, text |-> "", messages |-> <<>>,
           session |-> 0, path |-> "", pest_result |-> None, log |-> <<>> ]

\* A LiveSession that neither registry entry nor run refers to any more is
\* freed; its place in live_sessions is kept and holds Freed.
Freed == [ language |-> "english", messages |-> <<>>, owner |-> 0, is_active |-> FALSE ]
Collect(objs, registry, runs) ==
    [ i \in 1..Len(objs) |->
        IF (\E s \in SessionIds : registry[s] = i) \/ (\E c \in Conns : runs[c].session = i)
        THEN objs[i] ELSE Freed ]

NoRx == [ conn |-> 0, msg |-> Msg("none", "", None, None, JStr(T_empty)) ]
\* What a step that resumes after text_to_speech was given by it: no
\* message of a connection, the outcome of the awaited call.
TtsRx(out) == [ conn |-> 0, msg |-> Msg("tts", out, None, None, JStr(T_empty)) ]
Rx(c, msg) == [ conn |-> c, msg |-> msg ]

LiveInit ==
    /\ active_sessions = [s \in SessionIds |-> 0]
    /\ active_connections = [s \in SessionIds |-> 0]
    /\ latest_vision = [s \in SessionIds |-> None]
    /\ latest_audio = [s \in SessionIds |-> None]
    /\ live_sessions = <<>>
    /\ space_configured \in BOOLEAN
    /\ temp_files = {}
    /\ pc = [c \in Conns |-> "closed"]
    /\ sid = [c \in Conns |-> "s1"]
    /\ session_initialized = [c \in Conns |-> FALSE]
    /\ language = [c \in Conns |-> "english"]
    /\ run = [c \in Conns |-> NoRun]
    /\ rx = NoRx
    /\ tx = <<>>

\* The live-mode specifications leave the session store alone.
Init == LiveInit /\ StoreInit /\ ~mongo /\ UnitInit

\* The event loop runs one coroutine at a time; while a coroutine is inside
\* the blocking remote call of analyze_image_heavy no other coroutine runs.
LoopFree == \A c \in Conns : pc[c] # "heavy_wait"

\* Voice pipeline runs started so far: every run appends its user entry,
\* except the runs that have not yet left the heavy detector.
RECURSIVE SumLen(_, _)
SumLen(objs, i) ==
    IF i = 0 THEN 0
    ELSE Cardinality({ k \in 1..Len(objs[i].messages) : objs[i].messages[k].role = "user" })
         + SumLen(objs, i - 1)
voice_runs ==
    SumLen(live_sessions, Len(live_sessions))
    + Cardinality({ c \in Conns : pc[c] \in {"heavy_start", "heavy_wait"} })

\* os_module.unlink(temp_path) in the finally clause of
\* _call_heavy_pest_detection; the mutant leaves the file in place.
M_unlink(files, c) == files
unlink(files, c) == files \ {c}

\* LiveModeManager.send_message: the event goes to the websocket registered
\* under the session id, if there is one.
send_message(log, s, ev) ==
    IF active_connections[s] # 0
    THEN Append(log, [ev |-> ev, to |-> active_connections[s]])
    ELSE log

\* websocket.send_json on the coroutine's own websocket
send_json(log, c, ev) == Append(log, [ev |-> ev, to |-> c])

\* LiveModeManager.disconnect
disconnect(s) ==
    /\ active_sessions' = [active_sessions EXCEPT ![s] = 0]
    /\ active_connections' = [active_connections EXCEPT ![s] = 0]
    /\ live_sessions' =
         Collect(IF active_sessions[s] # 0
                 THEN [live_sessions EXCEPT ![active_sessions[s]].is_active = FALSE]
                 ELSE live_sessions,
                 active_sessions', run)

\* websocket_live_endpoint up to its first receive_json: accept the
\* connection, language = "english", session_initialized = False.
Connect(c, s) ==
    /\ UNCHANGED <<storeVars, unitVars>>
    /\ pc[c] = "closed" /\ LoopFree
    /\ pc' = [pc EXCEPT ![c] = "recv"]
    /\ sid' = [sid EXCEPT ![c] = s]
    /\ session_initialized' = [session_initialized EXCEPT ![c] = FALSE]
    /\ language' = [language EXCEPT ![c] = "english"]
    /\ rx' = NoRx /\ tx' = <<>>
    /\ UNCHANGED <<mgrVars, run>>

\* The coroutine ends through one of its two except clauses, both of which
\* call live_manager.disconnect(session_id); its locals are gone.
EndCoroutine(c) ==
    /\ UNCHANGED <<storeVars, unitVars>>
    /\ disconnect(sid[c])
    /\ pc' = [pc EXCEPT ![c] = "closed"]
    /\ sid' = [sid EXCEPT ![c] = "s1"]
    /\ session_initialized' = [session_initialized EXCEPT ![c] = FALSE]
    /\ language' = [language EXCEPT ![c] = "english"]
    /\ tx' = <<>>
    /\ UNCHANGED <<latest_vision, latest_audio, space_configured, temp_files, run>>

\* receive_json raises WebSocketDisconnect: the transport disconnected.
RecvDisconnect(c) ==
    /\ pc[c] = "recv" /\ LoopFree
    /\ rx' = Rx(c, DisconnectMsg)
    /\ EndCoroutine(c)

\* receive_json raises on text that is no JSON, or data.get raises on JSON
\* that is no object: the except Exception clause runs.
RecvBadPayload(c, msg) ==
    /\ pc[c] = "recv" /\ LoopFree
    /\ msg.json \in {"invalid", "array"}
    /\ rx' = Rx(c, msg)
    /\ EndCoroutine(c)

\* message_type == "init"
RecvInit(c, msg) ==
    /\ UNCHANGED <<storeVars, unitVars>>
    /\ pc[c] = "recv" /\ LoopFree
    /\ msg.json = "object" /\ msg.type = "init"
    /\ Len(live_sessions) < MaxLiveSessions
    /\ LET lang == IF IsNone(msg.language) THEN "english" ELSE Val(msg.language)
       IN  /\ language' = [language EXCEPT ![c] = lang]
           /\ active_connections' = [active_connections EXCEPT ![sid[c]] = c]
           /\ active_sessions' = [active_sessions EXCEPT ![sid[c]] = Len(live_sessions) + 1]
           /\ live_sessions' = Collect(Append(live_sessions, LiveSession(sid[c], lang, c)),
                                       active_sessions', run)
           /\ session_initialized' = [session_initialized EXCEPT ![c] = TRUE]
           /\ tx' = send_json(<<>>, c, WelcomeEv(lang))
    /\ rx' = Rx(c, msg)
    /\ UNCHANGED <<latest_vision, latest_audio, space_configured, temp_files,
                   pc, sid, run>>

\* elif not session_initialized.  The mutant treats the early message as a
\* failure and ends the coroutine.
M_RecvNotInitialized(c, msg) ==
    /\ pc[c] = "recv" /\ LoopFree
    /\ msg.json = "object" /\ msg.type # "init"
    /\ ~session_initialized[c]
    /\ rx' = Rx(c, msg)
    /\ EndCoroutine(c)

RecvNotInitialized(c, msg) ==
    /\ UNCHANGED <<storeVars, unitVars>>
    /\ pc[c] = "recv" /\ LoopFree
    /\ msg.json = "object" /\ msg.type # "init"
    /\ ~session_initialized[c]
    /\ tx' = send_json(<<>>, c, NotInitializedEv)
    /\ rx' = Rx(c, msg)
    /\ UNCHANGED <<mgrVars, connVars>>

\* message_type == "frame": LiveModeManager.process_frame, or only a log
\* line when the message holds no image data.
RecvFrame(c, msg) ==
    /\ UNCHANGED <<storeVars, unitVars>>
    /\ pc[c] = "recv" /\ LoopFree
    /\ msg.json = "object" /\ msg.type = "frame"
    /\ session_initialized[c]
    /\ rx' = Rx(c, msg)
    /\ LET s == sid[c]
           so == active_sessions[s]
           frame_data == Val(msg.image)
           part == IF Len(frame_data) > 1 THEN frame_data[2] ELSE frame_data[1]
           image_bytes == b64decode(part)
           vision_result == quick_analyze(Val(image_bytes))
       IN  IF IsNone(msg.image) \/ so = 0 \/ IsNone(image_bytes)
           THEN /\ tx' = <<>>
                /\ UNCHANGED latest_vision
           ELSE /\ latest_vision' =
                     [latest_vision EXCEPT ![s] =
                         Some([ image_bytes |-> Val(image_bytes),
                                vision_result |-> vision_result ])]
                /\ tx' = send_message(<<>>, s, FrameProcessedEv(vision_result))
    /\ UNCHANGED <<active_sessions, active_connections, latest_audio, live_sessions,
                   space_configured, temp_files, connVars>>

\* message_type == "voice" with a text that is no string: transcript.strip()
\* raises AttributeError, which only the except Exception clause catches.
RecvVoiceBadText(c, msg) ==
    /\ pc[c] = "recv" /\ LoopFree
    /\ msg.json = "object" /\ msg.type = "voice"
    /\ session_initialized[c]
    /\ msg.text.t # "str"
    /\ rx' = Rx(c, msg)
    /\ EndCoroutine(c)

\* message_type == "voice" with an empty or blank transcript: a log line.
RecvVoiceEmpty(c, msg) ==
    /\ UNCHANGED <<storeVars, unitVars>>
    /\ pc[c] = "recv" /\ LoopFree
    /\ msg.json = "object" /\ msg.type = "voice"
    /\ session_initialized[c]
    /\ msg.text.t = "str" /\ ~StripNonEmpty(msg.text.s)
    /\ rx' = Rx(c, msg) /\ tx' = <<>>
    /\ UNCHANGED <<mgrVars, connVars>>

\* The entries appended to session.messages: the role, and of the content
\* the farmer's question or the reply (the visual context that the user
\* prompt starts with is left out of the entry).
UserMessage(visual_context, user_query) ==
    [ role |-> "user", content |-> user_query ]
AssistantMessage(response_text) ==
    [ role |-> "assistant", content |-> <<response_text>> ]
\* The system message each path puts first in the list for the model.
SystemMessage(path) ==
    [ role |-> "system",
      content |-> IF path = "heavy"
                  THEN <<"farming assistant with pest detection results">>
                  ELSE <<"farming assistant">> ]
\* session.messages[-10:]
HistoryWindow == 10
LastEntries(messages, k) ==
    SubSeq(messages, IF Len(messages) > k THEN Len(messages) - k + 1 ELSE 1, Len(messages))
\* The argument of ollama_service.chat
chat_messages(path, messages) ==
    <<SystemMessage(path)>> \o LastEntries(messages, HistoryWindow)

\* message_type == "voice": LiveModeManager.process_voice_input up to its
\* first suspension: the status event of _call_heavy_pest_detection, or the
\* language-model call of _generate_regular_response.
RecvVoice(c, msg) ==
    /\ UNCHANGED <<storeVars, unitVars>>
    /\ pc[c] = "recv" /\ LoopFree
    /\ msg.json = "object" /\ msg.type = "voice"
    /\ session_initialized[c]
    /\ msg.text.t = "str" /\ StripNonEmpty(msg.text.s)
    /\ voice_runs < MaxVoiceRuns
    /\ rx' = Rx(c, msg)
    /\ LET s == sid[c]
           so == active_sessions[s]
           transcript == msg.text.s
           latest == latest_vision[s]
           lang == live_sessions[so].language
           escalate ==
               /\ ~IsNone(latest)
               /\ match_intent(transcript, Val(latest).vision_result).should_call_heavy_model
           visual_context == IF ~IsNone(latest)
                             THEN Val(latest).vision_result.description
                             ELSE "No visual information available"
       IN  IF so = 0
           THEN /\ tx' = <<>>
                /\ UNCHANGED <<live_sessions, pc, run>>
           ELSE IF escalate
           THEN /\ tx' = send_message(<<>>, s, StatusEv(lang))
                /\ run' = [run EXCEPT ![c] =
                             [ user_query |-> transcript, image_bytes |-> Some(Val(latest).image_bytes), text |-> "",
                               messages |-> <<>>,
                               session |-> so, path |-> "heavy", pest_result |-> None,
                               log |-> send_message(<<>>, s, StatusEv(lang)) ]]
                /\ pc' = [pc EXCEPT ![c] = "heavy_start"]
                /\ UNCHANGED live_sessions
           ELSE /\ tx' = <<>>
                /\ live_sessions' =
                     [live_sessions EXCEPT ![so].messages =
                         Append(@, UserMessage(visual_context, transcript))]
                /\ run' = [run EXCEPT ![c] =
                             [ user_query |-> transcript, image_bytes |-> None, text |-> "",
                               messages |-> chat_messages("fast", live_sessions'[so].messages), session |-> so,
                               path |-> "fast",
                               pest_result |-> None, log |-> <<>> ]]
                /\ pc' = [pc EXCEPT ![c] = "llm_wait"]
    /\ UNCHANGED <<active_sessions, active_connections, latest_vision, latest_audio,
                   space_configured, temp_files, sid, session_initialized, language>>

\* message_type == "interrupt": LiveModeManager.handle_interruption
RecvInterrupt(c, msg) ==
    /\ UNCHANGED <<storeVars, unitVars>>
    /\ pc[c] = "recv" /\ LoopFree
    /\ msg.json = "object" /\ msg.type = "interrupt"
    /\ session_initialized[c]
    /\ rx' = Rx(c, msg)
    /\ tx' = send_message(<<>>, sid[c], StopTtsEv)
    /\ UNCHANGED <<mgrVars, connVars>>

\* message_type == "ping"
RecvPing(c, msg) ==
    /\ UNCHANGED <<storeVars, unitVars>>
    /\ pc[c] = "recv" /\ LoopFree
    /\ msg.json = "object" /\ msg.type = "ping"
    /\ session_initialized[c]
    /\ rx' = Rx(c, msg)
    /\ tx' = send_json(<<>>, c, PongEv)
    /\ UNCHANGED <<mgrVars, connVars>>

\* any other message type: a log line
RecvUnknown(c, msg) ==
    /\ UNCHANGED <<storeVars, unitVars>>
    /\ pc[c] = "recv" /\ LoopFree
    /\ msg.json = "object"
    /\ msg.type \notin {"init", "frame", "voice", "interrupt", "ping"}
    /\ session_initialized[c]
    /\ rx' = Rx(c, msg) /\ tx' = <<>>
    /\ UNCHANGED <<mgrVars, connVars>>

\* _call_heavy_pest_detection between the answer of the heavy detector and
\* the language-model call: build the prompt from the detection record and
\* append the user entry to the LiveSession the run holds.
AfterHeavy(c, pest_result) ==
    LET identified == pest_result.pest_name # "Error"
        visual_context == IF identified THEN "PEST IDENTIFIED"
                          ELSE "Pest detection was attempted but no clear pest was identified"
    IN  /\ live_sessions' =
             [live_sessions EXCEPT ![run[c].session].messages =
                 Append(@, UserMessage(visual_context, run[c].user_query))]
        /\ run' = [run EXCEPT ![c].pest_result = Some(pest_result),
                              ![c].messages =
                                 chat_messages("heavy",
                                               live_sessions'[run[c].session].messages)]
        /\ pc' = [pc EXCEPT ![c] = "llm_wait"]

\* _call_heavy_pest_detection after the status event: write the temporary
\* image file and call analyze_image_heavy.  With the default HF_MODEL_ID
\* analyze_image_heavy raises at once and returns its error record; with a
\* configured space it makes the remote call, which blocks the event loop
\* until the remote classifier answers.
HeavyStart(c) ==
    /\ UNCHANGED <<storeVars, unitVars>>
    /\ pc[c] = "heavy_start" /\ LoopFree
    /\ temp_files' = temp_files \cup {c}
    /\ IF space_configured
       THEN /\ pc' = [pc EXCEPT ![c] = "heavy_wait"]
            /\ UNCHANGED <<live_sessions, run>>
       ELSE AfterHeavy(c, ErrorRecord)
    /\ rx' = NoRx /\ tx' = <<>>
    /\ UNCHANGED <<active_sessions, active_connections, latest_vision, latest_audio,
                   space_configured, sid, session_initialized, language>>

\* The remote classifier answered (or the call raised): analyze_image_heavy
\* returns its record.
HeavyReturn(c, result) ==
    /\ UNCHANGED <<storeVars, unitVars>>
    /\ pc[c] = "heavy_wait"
    /\ AfterHeavy(c, ParseHeavyResult(result))
    /\ rx' = NoRx /\ tx' = <<>>
    /\ UNCHANGED <<active_sessions, active_connections, latest_vision, latest_audio,
                   space_configured, temp_files, sid, session_initialized, language>>

\* ollama_service.chat returned or raised.  On the escalation path a raise
\* runs the finally clause (unlink) and the except clause (error response);
\* on the fast path it runs the except clause of _generate_regular_response.
LlmReturn(c, out) ==
    /\ UNCHANGED <<storeVars, unitVars>>
    /\ pc[c] = "llm_wait" /\ LoopFree
    /\ rx' = NoRx
    /\ LET s == sid[c]
           heavy == run[c].path = "heavy"
           response == ResponseEv(out, IF heavy THEN run[c].pest_result ELSE None)
       IN  IF out # "RAISE"
           THEN /\ live_sessions' =
                     [live_sessions EXCEPT ![run[c].session].messages =
                         Append(@, AssistantMessage(out))]
                /\ tx' = send_message(<<>>, s, response)
                /\ run' = [run EXCEPT ![c].text = out,
                                      ![c].log = send_message(@, s, response)]
                /\ pc' = [pc EXCEPT ![c] = "tts_wait"]
                /\ UNCHANGED temp_files
           ELSE IF heavy
           THEN /\ temp_files' = unlink(temp_files, c)
                /\ tx' = send_message(<<>>, s, ErrorResponseEv)
                /\ run' = [run EXCEPT ![c].text = error_msg,
                                      ![c].log = send_message(@, s, ErrorResponseEv)]
                /\ pc' = [pc EXCEPT ![c] = "tts_wait"]
                /\ UNCHANGED live_sessions
           ELSE /\ tx' = send_message(<<>>, s, GenericErrorEv(
                             "Sorry, I encountered an error generating a response."))
                /\ run' = [run EXCEPT ![c] = NoRun]
                /\ pc' = [pc EXCEPT ![c] = "recv"]
                /\ live_sessions' = Collect(live_sessions, active_sessions, run')
                /\ UNCHANGED temp_files
    /\ UNCHANGED <<active_sessions, active_connections, latest_vision, latest_audio,
                   space_configured, sid, session_initialized, language>>

\* _generate_and_send_tts after text_to_speech returned or raised, then the
\* finally clause of _call_heavy_pest_detection.
TtsReturn(c, out) ==
    /\ UNCHANGED <<storeVars, unitVars>>
    /\ pc[c] = "tts_wait" /\ LoopFree
    /\ rx' = TtsRx(out)
    /\ LET s == sid[c]
       IN  /\ latest_audio' = IF out = "ok"
                              THEN [latest_audio EXCEPT ![s] = Some("tf_path")]
                              ELSE latest_audio
           /\ tx' = send_message(<<>>, s, IF out = "ok" THEN TtsAudioEv("tts_url")
                                          ELSE IF out = "save_fail" THEN TtsAudioEv("audio")
                                          ELSE TextOnlyEv(run[c].text))
    /\ temp_files' = unlink(temp_files, c)
    /\ run' = [run EXCEPT ![c] = NoRun]
    /\ pc' = [pc EXCEPT ![c] = "recv"]
    /\ live_sessions' = Collect(live_sessions, active_sessions, run')
    /\ UNCHANGED <<active_sessions, active_connections, latest_vision,
                   space_configured, sid, session_initialized, language>>

\* One connection at a time, every message of the protocol.
Next ==
    \/ Connect(1, "s1")
    \/ RecvDisconnect(1)
    \/ \E msg \in InboundMessages : RecvBadPayload(1, msg)
    \/ \E msg \in InboundMessages : RecvInit(1, msg)
    \/ \E msg \in InboundMessages : RecvNotInitialized(1, msg)
    \/ \E msg \in InboundMessages : RecvFrame(1, msg)
    \/ \E msg \in InboundMessages : RecvVoiceBadText(1, msg)
    \/ \E msg \in InboundMessages : RecvVoiceEmpty(1, msg)
    \/ \E msg \in InboundMessages : RecvVoice(1, msg)
    \/ \E msg \in InboundMessages : RecvInterrupt(1, msg)
    \/ \E msg \in InboundMessages : RecvPing(1, msg)
    \/ \E msg \in InboundMessages : RecvUnknown(1, msg)
    \/ HeavyStart(1)
    \/ \E result \in RemoteOutcomes : HeavyReturn(1, result)
    \/ \E out \in LlmOutcomes : LlmReturn(1, out)
    \/ \E out \in TtsOutcomes : TtsReturn(1, out)

Spec == Init /\ [][Next]_vars

\* Two connections, which may name the same session id.  The messages are
\* those that read or write the state the connections share.
PairMessages ==
    { Msg("object", "init", None, None, JStr(T_empty)) }
    \cup { Msg("object", "frame", None, Some(f), JStr(T_empty)) :
              f \in {<<"B64_IMG1">>, <<"B64_TXT">>} }
    \cup { Msg("object", "voice", None, None, JStr(x)) : x \in {T_bug, T_rain} }

NextPair ==
    \/ \E c \in Conns, s \in SessionIds : (c = 1 => s = "s1") /\ Connect(c, s)
    \/ \E c \in Conns : RecvDisconnect(c)
    \/ \E c \in Conns, msg \in PairMessages : RecvInit(c, msg)
    \/ \E c \in Conns, msg \in PairMessages : RecvFrame(c, msg)
    \/ \E c \in Conns, msg \in PairMessages : RecvVoice(c, msg)
    \/ \E c \in Conns : HeavyStart(c)
    \/ \E c \in Conns, result \in RemoteOutcomes : HeavyReturn(c, result)
    \/ \E c \in Conns, out \in LlmOutcomes : LlmReturn(c, out)
    \/ \E c \in Conns, out \in TtsOutcomes : TtsReturn(c, out)

SpecPair == Init /\ [][NextPair]_vars

\* ================================================================ claims
\* The steps of a run in flight.
InRun == {"heavy_start", "heavy_wait", "llm_wait", "tts_wait"}
InitMsg == Msg("object", "init", None, None, JStr(T_empty))

\* C1: a message other than init that a connection receives before it has
\* handled init is answered with exactly one "Session not initialized" error
\* event on that connection; the step creates no LiveSession, registers
\* nothing and caches no triage; the connection stays open and
\* uninitialized, and (second conjunct) an open connection can always take
\* an init message.
C1_NotInitializedRejected ==
    /\ [][ \A c \in Conns :
             ( /\ rx'.conn = c
               /\ rx'.msg.json = "object" /\ rx'.msg.type # "init"
               /\ pc[c] = "recv" /\ ~session_initialized[c] )
             => /\ Len(tx') = 1
                /\ tx'[1].to = c
                /\ tx'[1].ev.type = "error"
                /\ tx'[1].ev.text = "Session not initialized. Send init message first."
                /\ live_sessions' = live_sessions
                /\ active_sessions' = active_sessions
                /\ active_connections' = active_connections
                /\ latest_vision' = latest_vision
                /\ pc'[c] = "recv"
                /\ ~session_initialized'[c] ]_vars
    /\ [](\A c \in {1} :
             (pc[c] = "recv" /\ Len(live_sessions) < MaxLiveSessions)
             => ENABLED RecvInit(c, InitMsg))

\* C1 witness: a voice message arrived on the uninitialized connection 1
\* and was answered with the error; nothing is registered.
C1_Witness ==
    /\ rx.conn = 1 /\ rx.msg.type = "voice"
    /\ pc[1] = "recv" /\ ~session_initialized[1]
    /\ tx = <<[ev |-> NotInitializedEv, to |-> 1]>>
    /\ active_sessions["s1"] = 0

\* C2: a voice message with a pest-related transcript, received on a
\* registered session while a relevant triage is cached, starts an
\* escalation run; an escalation run ends only after the speech step, and
\* the events it has sent by then are exactly a status event with
\* is_analyzing true, then a response event with a non-null pest_detection,
\* then a tts_audio or text_only event, all to the connection that sent the
\* voice message.  It holds of Spec, where no two connections share a
\* session identifier, and fails of SpecPair, where they may (see C7).
C2_EscalationEventOrder ==
    [][ \A c \in Conns :
          /\ ( /\ rx'.conn = c /\ rx'.msg.json = "object" /\ rx'.msg.type = "voice"
               /\ pc[c] = "recv" /\ session_initialized[c]
               /\ rx'.msg.text.t = "str" /\ IsPestQuery(rx'.msg.text.s)
               /\ active_sessions[sid[c]] # 0
               /\ ~IsNone(latest_vision[sid[c]])
               /\ Val(latest_vision[sid[c]]).vision_result.has_relevant_content )
             => run'[c].path = "heavy"
          /\ (run[c].path = "heavy" /\ pc'[c] \notin InRun) => pc[c] = "tts_wait"
          /\ (run[c].path = "heavy" /\ pc[c] = "tts_wait" /\ pc'[c] \notin InRun)
             => LET evs == run[c].log \o tx'
                IN  /\ Len(evs) = 3
                    /\ \A i \in 1..3 : evs[i].to = c
                    /\ evs[1].ev.type = "status"
                    /\ evs[1].ev.is_analyzing = Some(TRUE)
                    /\ evs[2].ev.type = "response"
                    /\ ~IsNone(evs[2].ev.pest_detection)
                    /\ evs[3].ev.type \in {"tts_audio", "text_only"} ]_vars

\* C3: a voice message goes to the heavy detector exactly when a triage is
\* cached for the session, that triage has has_relevant_content true and
\* the transcript is pest-related; otherwise it goes to the fast path.  The
\* heavy detector is called (its temporary file written, the remote call
\* pending) only in a run that was started that way.  It holds of Spec and
\* of SpecPair.
C3_HeavyOnlyOnEscalation ==
    [][ \A c \in Conns :
          /\ ( /\ rx'.conn = c /\ rx'.msg.json = "object" /\ rx'.msg.type = "voice"
               /\ pc[c] = "recv" /\ session_initialized[c]
               /\ rx'.msg.text.t = "str" /\ StripNonEmpty(rx'.msg.text.s)
               /\ active_sessions[sid[c]] # 0 )
             => LET latest == latest_vision[sid[c]]
                    cached == ~IsNone(latest)
                    relevant == cached /\ Val(latest).vision_result.has_relevant_content
                    pest == IsPestQuery(rx'.msg.text.s)
                IN  IF cached /\ relevant /\ pest
                    THEN pc'[c] = "heavy_start" /\ run'[c].path = "heavy"
                    ELSE pc'[c] = "llm_wait" /\ run'[c].path = "fast"
                         /\ temp_files' = temp_files
          /\ (pc[c] # "heavy_start" /\ pc'[c] = "heavy_start")
             => rx'.conn = c /\ rx'.msg.type = "voice"
          /\ (pc'[c] = "heavy_wait" \/ (c \in temp_files' /\ c \notin temp_files))
             => pc[c] \in {"heavy_start", "heavy_wait"} /\ run[c].path = "heavy"
          /\ run[c].path = "fast" => run'[c].path # "heavy" /\ pc'[c] \notin {"heavy_start", "heavy_wait"} ]_vars

\* C3 witness: the remote call of the heavy detector is pending for the
\* question "BUG?" asked over a cached relevant triage.
C3_Witness ==
    /\ pc[1] = "heavy_wait"
    /\ run[1].user_query = T_bug
    /\ Val(latest_vision["s1"]).vision_result.has_relevant_content

\* C4: every voice run ends with a tts_audio or a text_only event as the
\* last event it sends, also when the language-model call failed.
C4_RunEndsWithAudioOrTextOnly ==
    [][ \A c \in Conns :
          (pc[c] \in InRun /\ pc'[c] = "recv")
          => /\ Len(tx') > 0
             /\ tx'[Len(tx')].ev.type \in {"tts_audio", "text_only"} ]_vars

\* C5: a tts_audio or text_only event is sent only by a run that has, in an
\* earlier step, sent the response event with the text being narrated, to
\* the same receiver.  It holds of Spec, where no two connections share a
\* session identifier, and fails of SpecPair, where they may (see C7).
C5_ResponseBeforeAudio ==
    [][ \A i \in 1..Len(tx') :
          tx'[i].ev.type \in {"tts_audio", "text_only"}
          => \E c \in Conns :
                /\ pc[c] = "tts_wait" /\ pc'[c] = "recv"
                /\ Len(tx') = 1
                /\ \E k \in 1..Len(run[c].log) :
                      /\ run[c].log[k].ev.type = "response"
                      /\ run[c].log[k].ev.text = run[c].text
                      /\ run[c].log[k].to = tx'[i].to
                /\ (tx'[i].ev.type = "text_only" => tx'[i].ev.text = run[c].text) ]_vars

\* C6: for every session identifier at most one pipeline run is in flight.
C6_OneRunPerSession ==
    \A s \in SessionIds :
       Cardinality({ c \in Conns : sid[c] = s /\ pc[c] \in InRun }) <= 1

\* C7: every open connection that has handled init is the connection
\* registered under its session identifier, and the LiveSession registered
\* there is the one its own init created.
C7_OwnSessionAndConnection ==
    \A c \in Conns :
       (pc[c] # "closed" /\ session_initialized[c])
       => /\ active_connections[sid[c]] = c
          /\ active_sessions[sid[c]] # 0
          /\ live_sessions[active_sessions[sid[c]]].owner = c

\* C8: the receive loop ends only on a transport disconnect; a payload that
\* is no JSON object, or a voice message whose text is no string, is
\* answered with one error event and the connection goes on receiving.
C8_UnexpectedErrorKeepsConnection ==
    [][ \A c \in Conns :
          (rx'.conn = c /\ pc[c] = "recv")
          => /\ pc'[c] = "closed" => rx'.msg = DisconnectMsg
             /\ ( \/ rx'.msg.json \in {"invalid", "array"}
                  \/ ( /\ rx'.msg.json = "object" /\ rx'.msg.type = "voice"
                       /\ session_initialized[c] /\ rx'.msg.text.t # "str" ) )
                => /\ Len(tx') = 1
                   /\ tx'[1].to = c
                   /\ tx'[1].ev.type = "error"
                   /\ pc'[c] = "recv" ]_vars

\* C9: a frame, voice, interrupt or ping message received on an initialized
\* connection has an event sent to that connection in the same step, or
\* starts a run that is still to send its events.
C9_NoSilentEvent ==
    [][ \A c \in Conns :
          ( /\ rx'.conn = c /\ pc[c] = "recv" /\ session_initialized[c]
            /\ rx'.msg.json = "object"
            /\ rx'.msg.type \in {"frame", "voice", "interrupt", "ping"} )
          => \/ \E i \in 1..Len(tx') : tx'[i].to = c
             \/ pc'[c] \in InRun ]_vars

\* C10: while the remote call of the heavy detector is pending for one
\* session, an initialized connection of another session that waits for a
\* message can have a frame handled.
C10_HeavyCallDoesNotBlockOthers ==
    \A a \in Conns, b \in Conns :
       ( /\ pc[a] = "heavy_wait" /\ pc[b] = "recv"
         /\ sid[a] # sid[b] /\ session_initialized[b] )
       => ENABLED RecvFrame(b, Msg("object", "frame", None, Some(<<"B64_IMG1">>), JStr(T_empty)))

\* The single connection of Spec with the progress the code and its
\* services guarantee: a coroutine that is ready to run is run by the event
\* loop, the language-model call ends (its HTTP client has a 30 s timeout)
\* and the speech call is taken to end.  Nothing is assumed of the remote
\* classifier:
\* analyze_image_heavy passes no timeout to client.predict, so HeavyReturn
\* has no fairness condition.
SpecLive ==
    /\ Init /\ [][Next]_vars
    /\ WF_vars(HeavyStart(1))
    /\ WF_vars(\E out \in LlmOutcomes : LlmReturn(1, out))
    /\ WF_vars(\E out \in TtsOutcomes : TtsReturn(1, out))

\* C11: every voice message that escalates to the heavy detector is
\* eventually followed by a response event, also when the remote classifier
\* never answers.
C11_EscalationEventuallyResponds ==
    \A c \in {1} :
       (pc[c] = "heavy_start")
       ~> (\E i \in 1..Len(tx) : tx[i].ev.type = "response")

\* C12: when the coroutine of a connection ends, its session identifier is
\* in neither registry, the LiveSession that was registered is inactive and
\* no triage result or image stays cached for the identifier.
C12_DisconnectClearsSession ==
    [][ \A c \in Conns :
          (pc[c] = "recv" /\ pc'[c] = "closed")
          => /\ active_sessions'[sid[c]] = 0
             /\ active_connections'[sid[c]] = 0
             /\ active_sessions[sid[c]] # 0
                => ~live_sessions'[active_sessions[sid[c]]].is_active
             /\ IsNone(latest_vision'[sid[c]]) ]_vars

\* C13: a frame message on a registered session whose image data base64
\* decodes makes the triage result of this frame and its image bytes the one
\* entry cached for the session, and sends exactly one frame_processed
\* event with the description, a boolean has_relevant_content and a
\* confidence between 0 and 1: relevant with confidence 0.5 for bytes that
\* open as an image, not relevant with confidence 0 for other bytes.
C13_FrameReplacesTriage ==
    [][ \A c \in Conns :
          ( /\ rx'.conn = c /\ pc[c] = "recv" /\ session_initialized[c]
            /\ rx'.msg.json = "object" /\ rx'.msg.type = "frame"
            /\ active_sessions[sid[c]] # 0
            /\ rx'.msg.image \in { Some(<<"B64_IMG1">>), Some(<<DataUriPrefix, "B64_IMG2">>),
                                   Some(<<"B64_TXT">>) } )
          => LET f == Val(rx'.msg.image)
                 bytes == IF f = <<"B64_IMG1">> THEN "IMG1"
                          ELSE IF f = <<"B64_TXT">> THEN "TXT" ELSE "IMG2"
                 isImage == bytes \in {"IMG1", "IMG2"}
                 cached == Val(latest_vision'[sid[c]])
             IN  /\ ~IsNone(latest_vision'[sid[c]])
                 /\ cached.image_bytes = bytes
                 /\ cached.vision_result.has_relevant_content = isImage
                 /\ cached.vision_result.confidence = (IF isImage THEN 500 ELSE 0)
                 /\ \A s \in SessionIds \ {sid[c]} : latest_vision'[s] = latest_vision[s]
                 /\ Len(tx') = 1
                 /\ tx'[1].to = active_connections[sid[c]]
                 /\ tx'[1].ev.type = "frame_processed"
                 /\ LET a == Val(tx'[1].ev.analysis)
                    IN  /\ a.has_relevant_content \in BOOLEAN
                        /\ a.has_relevant_content = isImage
                        /\ a.confidence \in 0..1000
                        /\ a.confidence = cached.vision_result.confidence
                        /\ a.description = cached.vision_result.description
                 /\ pc'[c] = "recv" ]_vars

\* C13 witness: a frame sent as a data URI has replaced the cached triage
\* of session s1 and was acknowledged.
C13_Witness ==
    /\ rx.conn = 1 /\ rx.msg.image = Some(<<DataUriPrefix, "B64_IMG2">>)
    /\ ~IsNone(latest_vision["s1"])
    /\ Val(latest_vision["s1"]).image_bytes = "IMG2"
    /\ Len(tx) = 1 /\ tx[1].ev.type = "frame_processed"

\* C14: a frame message on a registered session whose image data cannot be
\* decoded (base64 that does not decode, or bytes that are no image) is
\* answered with one frame_processed event with has_relevant_content false,
\* its triage result becomes the cached one, and the connection goes on
\* receiving.
C14_UndecodableFrameNotRelevant ==
    [][ \A c \in Conns :
          ( /\ rx'.conn = c /\ pc[c] = "recv" /\ session_initialized[c]
            /\ rx'.msg.json = "object" /\ rx'.msg.type = "frame"
            /\ active_sessions[sid[c]] # 0
            /\ rx'.msg.image \in { Some(<<"B64_TXT">>), Some(<<"B64_BADPAD">>) } )
          => /\ Len(tx') = 1
             /\ tx'[1].ev.type = "frame_processed"
             /\ ~Val(tx'[1].ev.analysis).has_relevant_content
             /\ ~IsNone(latest_vision'[sid[c]])
             /\ ~Val(latest_vision'[sid[c]]).vision_result.has_relevant_content
             /\ pc'[c] = "recv" ]_vars

\* C15: a voice message on a registered session for which no triage result
\* is cached starts a fast-path run whatever its transcript: no event is
\* sent before the language-model call, no temporary image file is written
\* and the heavy detector is not entered.  A fast-path run sends no status
\* event, and its response event carries no pest_detection.
C15_NoTriageTakesFastPath ==
    [][ \A c \in Conns :
          /\ ( /\ rx'.conn = c /\ pc[c] = "recv" /\ session_initialized[c]
               /\ rx'.msg.json = "object" /\ rx'.msg.type = "voice"
               /\ rx'.msg.text.t = "str" /\ StripNonEmpty(rx'.msg.text.s)
               /\ active_sessions[sid[c]] # 0
               /\ IsNone(latest_vision[sid[c]]) )
             => /\ tx' = <<>>
                /\ pc'[c] = "llm_wait"
                /\ run'[c].path = "fast"
                /\ temp_files' = temp_files
          /\ (run[c].path = "fast" /\ pc[c] \in InRun /\ pc'[c] # pc[c])
             => /\ pc[c] \in {"llm_wait", "tts_wait"}
                /\ pc'[c] \in {"tts_wait", "recv"}
                /\ temp_files' = temp_files
                /\ \A i \in 1..Len(tx') :
                      /\ tx'[i].ev.type \in {"response", "error", "tts_audio", "text_only"}
                      /\ IsNone(tx'[i].ev.pest_detection)
                      /\ IsNone(tx'[i].ev.is_analyzing) ]_vars

\* C15 witness: the pest-related question "BUG?" was asked before any frame
\* was cached and has been answered on the fast path.
C15_Witness ==
    /\ pc[1] = "tts_wait" /\ run[1].path = "fast" /\ run[1].user_query = T_bug
    /\ IsNone(latest_vision["s1"])
    /\ Len(tx) = 1 /\ tx[1].ev.type = "response" /\ IsNone(tx[1].ev.pest_detection)

\* C16: an init message registers, under the session identifier of the
\* connection, a new LiveSession with the requested language (english when
\* none is given), an empty message history and the active mark; it
\* registers the connection, marks it initialized and sends exactly one
\* welcome event.  This is so too when a LiveSession is already registered
\* for the connection; the cached triage results are kept.
C16_InitRegistersFreshSession ==
    [][ \A c \in Conns :
          ( /\ rx'.conn = c /\ pc[c] = "recv"
            /\ rx'.msg.json = "object" /\ rx'.msg.type = "init" )
          => LET lang == IF rx'.msg.language = Some("hindi") THEN "hindi" ELSE "english"
                 new == active_sessions'[sid[c]]
             IN  /\ new # 0 /\ new # active_sessions[sid[c]]
                 /\ new \notin 1..Len(live_sessions)
                 /\ live_sessions'[new].language = lang
                 /\ live_sessions'[new].messages = <<>>
                 /\ live_sessions'[new].is_active
                 /\ active_connections'[sid[c]] = c
                 /\ session_initialized'[c] /\ language'[c] = lang
                 /\ pc'[c] = "recv"
                 /\ Len(tx') = 1 /\ tx'[1].to = c /\ tx'[1].ev.type = "welcome"
                 /\ latest_vision' = latest_vision ]_vars

\* C16 witness: an init message asking for hindi has registered a second
\* LiveSession, with an empty history, while a triage result is cached.
C16_Witness ==
    /\ rx.conn = 1 /\ rx.msg.type = "init" /\ rx.msg.language = Some("hindi")
    /\ active_sessions["s1"] = 2
    /\ live_sessions[2].language = "hindi" /\ live_sessions[2].messages = <<>>
    /\ ~IsNone(latest_vision["s1"])

\* C17: on a registered session an interrupt message sends exactly one
\* stop_tts event and a ping message exactly one pong event, and neither
\* changes the LiveSession objects, the cached triage results, the
\* registered audio or the two registries.
C17_InterruptAndPing ==
    [][ \A c \in Conns :
          ( /\ rx'.conn = c /\ pc[c] = "recv" /\ session_initialized[c]
            /\ rx'.msg.json = "object" /\ rx'.msg.type \in {"interrupt", "ping"}
            /\ active_sessions[sid[c]] # 0 )
          => /\ Len(tx') = 1
             /\ rx'.msg.type = "interrupt"
                => tx'[1].ev.type = "stop_tts" /\ tx'[1].to = active_connections[sid[c]]
             /\ rx'.msg.type = "ping"
                => tx'[1].ev.type = "pong" /\ tx'[1].to = c
             /\ live_sessions' = live_sessions
             /\ latest_vision' = latest_vision
             /\ latest_audio' = latest_audio
             /\ active_sessions' = active_sessions
             /\ active_connections' = active_connections
             /\ pc'[c] = "recv" ]_vars

\* C17 witness: an interrupt message was answered with stop_tts on a
\* session that has a message history, a cached triage and registered audio.
C17_Witness ==
    /\ rx.conn = 1 /\ rx.msg.type = "interrupt"
    /\ tx = <<[ev |-> Ev("stop_tts", "Listening...", None, None, None), to |-> 1]>>
    /\ active_sessions["s1"] # 0
    /\ Len(live_sessions[active_sessions["s1"]].messages) = 2
    /\ ~IsNone(latest_vision["s1"]) /\ ~IsNone(latest_audio["s1"])

\* ============================================================ session store
liveVars == <<mgrVars, connVars, rx, tx>>

\* MongoDBService.get_session: the document whose _id is the ObjectId the
\* string spells, else the document whose id field is the string, else None
\* (None too when the database is not connected).
db_get_session(session_id) ==
    IF mongo /\ session_id.n \in Uuids /\ ~IsNone(db_sessions[session_id.n])
    THEN Some([ created_at |-> Val(db_sessions[session_id.n]).created_at,
                id |-> session_id.n,
                detected_pests |-> Val(db_sessions[session_id.n]).detected_pests ])
    ELSE None

\* The document create_session inserts for a new Session.
SessionDocument(session) ==
    [ created_at |-> session.created_at, detected_pests |-> session.detected_pests ]

\* MongoDBSessionStore.get_session (InMemorySessionStore.get_session when
\* the database is not connected): the store after the call, the identifier
\* of the Session returned (0 when it raised) and whether it raised.
get_session(session_id) ==
    LET new == Session(next_id, now)
        WithNew(mem) ==
            [ result |-> next_id,
              sessions |-> [mem EXCEPT ![next_id] = Some(new)],
              db_sessions |-> IF mongo
                              THEN [db_sessions EXCEPT ![next_id] = Some(SessionDocument(new))]
                              ELSE db_sessions, next_id |-> next_id + 1, raised |-> FALSE ]
    IN  IF IsNone(session_id) THEN WithNew(sessions)
        ELSE LET s == Val(session_id)
                 inMemory == s.kind = "uuid" /\ s.n \in Uuids /\ ~IsNone(sessions[s.n])
                 db_session == IF inMemory THEN None ELSE db_get_session(s)
                 \* get_messages looks the messages up by the string it was given
                 loaded == [ created_at |-> Val(db_session).created_at,
                             id |-> Val(db_session).id,
                             messages |-> IF s.kind = "uuid" THEN db_messages[s.n] ELSE 0,
                             saved |-> 0,
                             detected_pests |-> Val(db_session).detected_pests ]
                 mem == IF ~IsNone(db_session)
                        THEN [sessions EXCEPT ![loaded.id] = Some(loaded)]
                        ELSE sessions
                 session == IF inMemory THEN sessions[s.n]
                            ELSE IF ~IsNone(db_session) THEN Some(loaded) ELSE None
             IN  IF ~IsNone(session)
                 THEN IF is_expired(Val(session), TTL)
                      THEN IF s.kind = "uuid"
                           THEN WithNew([mem EXCEPT ![s.n] = None])
                           \* del self.sessions[session_id]: KeyError
                           ELSE [ result |-> 0, sessions |-> mem,
                                  db_sessions |-> db_sessions, next_id |-> next_id, raised |-> TRUE ]
                      ELSE [ result |-> Val(session).id, sessions |-> mem,
                             db_sessions |-> db_sessions, next_id |-> next_id,
                             raised |-> FALSE ]
                 ELSE WithNew(mem)

\* MongoDBSessionStore.update_session: the store after the call.
update_session(mem, dbs, session) ==
    [ sessions |-> [mem EXCEPT ![session.id] =
                       Some(IF mongo THEN [session EXCEPT !.saved = session.messages]
                            ELSE session)],
      db_sessions |-> IF mongo /\ ~IsNone(dbs[session.id])
                      THEN [dbs EXCEPT ![session.id] =
                               Some([Val(@) EXCEPT !.detected_pests = session.detected_pests])]
                      ELSE dbs,
      db_messages |-> IF mongo
                      THEN [db_messages EXCEPT ![session.id] =
                               @ + (session.messages - session.saved)]
                      ELSE db_messages ]

\* Session.add_detected_pest
add_detected_pest(session, pest_name) ==
    IF \E i \in 1..Len(session.detected_pests) : session.detected_pests[i] = pest_name
    THEN session
    ELSE [session EXCEPT !.detected_pests = Append(@, pest_name)]

\* Time passes.
Tick ==
    /\ now < MaxTime
    /\ now' = now + 1
    /\ ret' = NoRet
    /\ UNCHANGED <<sessions, db_sessions, db_messages, mongo, next_id, chat_req, liveVars, unitVars>>

\* GET /history/{session_id}: session_store.get_session; the response is
\* the history of the Session it returned, and 404 only when it raised.
GetHistory(session_id) ==
    /\ next_id <= MaxSessions
    /\ LET r == get_session(session_id)
       IN  /\ sessions' = r.sessions
           /\ db_sessions' = r.db_sessions
           /\ next_id' = r.next_id
           /\ ret' = [ result |-> Some(r.result), id |-> session_id,
                       op |-> "get_session", raised |-> r.raised,
                       status |-> IF r.raised THEN 404 ELSE 200 ]
    /\ UNCHANGED <<db_messages, mongo, now, chat_req, liveVars, unitVars>>

\* POST /chat up to its first await: get_session; the request holds the
\* Session object while the context is built and the language model runs.
ChatBegin(session_id) ==
    /\ IsNone(chat_req)
    /\ next_id <= MaxSessions
    /\ LET r == get_session(session_id)
       IN  /\ sessions' = r.sessions
           /\ db_sessions' = r.db_sessions
           /\ next_id' = r.next_id
           /\ ret' = Ret("get_session", session_id, Some(r.result), r.raised)
           /\ chat_req' = IF r.raised THEN None ELSE r.sessions[r.result]
    /\ UNCHANGED <<db_messages, mongo, now, liveVars, unitVars>>

\* POST /chat after the language model answered: two add_message calls and
\* update_session on the Session the request holds.  The object is the one
\* in the store as long as the store still holds it.
ChatEnd ==
    /\ ~IsNone(chat_req)
    /\ LET held == Val(chat_req)
           stored == sessions[held.id]
           obj == IF ~IsNone(stored) /\ Val(stored).created_at = held.created_at
                  THEN Val(stored) ELSE held
           session == [obj EXCEPT !.messages = @ + 2]
           u == update_session(sessions, db_sessions, session)
       IN  /\ obj.messages + 2 <= MaxMessages
           /\ \A k \in Uuids : u.db_messages[k] <= MaxDbMessages
           /\ sessions' = u.sessions
           /\ db_sessions' = u.db_sessions
           /\ db_messages' = u.db_messages
           /\ ret' = Ret("update_session", Some(Uuid(held.id)), None, FALSE)
    /\ chat_req' = None
    /\ UNCHANGED <<mongo, now, next_id, liveVars, unitVars>>

\* POST /chat when the language model raised: the request ends with an
\* HTTP error and the store is not called again.
ChatFail ==
    /\ ~IsNone(chat_req)
    /\ chat_req' = None
    /\ ret' = NoRet
    /\ UNCHANGED <<sessions, db_sessions, db_messages, mongo, now, next_id, liveVars, unitVars>>

\* POST /detect-pest after the prediction: get_session, add_detected_pest,
\* update_session, with no await in between.
DetectPest(session_id) ==
    /\ next_id <= MaxSessions
    /\ LET r == get_session(session_id)
           session == add_detected_pest(Val(r.sessions[r.result]), "aphid")
           u == update_session(r.sessions, r.db_sessions, session)
       IN  /\ next_id' = r.next_id
           /\ ret' = IF r.raised
                     THEN Ret("get_session", session_id, Some(r.result), TRUE)
                     ELSE Ret("update_session", Some(Uuid(r.result)), None, FALSE)
           /\ IF r.raised
              THEN /\ sessions' = r.sessions
                   /\ db_sessions' = r.db_sessions
                   /\ UNCHANGED db_messages
              ELSE /\ \A k \in Uuids : u.db_messages[k] <= MaxDbMessages
                   /\ sessions' = u.sessions
                   /\ db_sessions' = u.db_sessions
                   /\ db_messages' = u.db_messages
    /\ UNCHANGED <<mongo, now, chat_req, liveVars, unitVars>>

\* DELETE /session/{session_id}: MongoDBSessionStore.clear_session with
\* MongoDBService.delete_session.
ClearSession(session_id) ==
    /\ ~IsNone(session_id)
    /\ LET s == Val(session_id)
           present == s.kind = "uuid" /\ s.n \in Uuids /\ ~IsNone(sessions[s.n])
           deleted == mongo /\ ~IsNone(db_sessions[s.n])
       IN  IF present
           THEN /\ sessions' = [sessions EXCEPT ![s.n] = None]
                /\ db_sessions' = IF deleted THEN [db_sessions EXCEPT ![s.n] = None]
                                  ELSE db_sessions
                /\ db_messages' = IF deleted THEN [db_messages EXCEPT ![s.n] = 0]
                                  ELSE db_messages
                /\ ret' = Ret("clear_session", session_id, Some(TRUE), FALSE)
           ELSE /\ ret' = Ret("clear_session", session_id, Some(FALSE), FALSE)
                /\ UNCHANGED <<sessions, db_sessions, db_messages>>
    /\ UNCHANGED <<mongo, now, next_id, chat_req, liveVars, unitVars>>

\* InMemorySessionStore.cleanup_expired (MongoDBSessionStore inherits it)
CleanupExpired ==
    /\ sessions' = [ k \in Uuids |->
                       IF ~IsNone(sessions[k]) /\ is_expired(Val(sessions[k]), TTL)
                       THEN None ELSE sessions[k] ]
    \* the result is len(expired), the number the method logs
    /\ ret' = Ret("cleanup_expired", None,
                  Some(Cardinality({ k \in Uuids : /\ ~IsNone(sessions[k])
                                                    /\ is_expired(Val(sessions[k]), TTL) })),
                  FALSE)
    /\ UNCHANGED <<db_sessions, db_messages, mongo, now, next_id, chat_req, liveVars, unitVars>>

\* The server process is started again: the module-level session_store is
\* empty and no request is in flight; the database keeps its documents.
Restart ==
    /\ \E k \in Uuids : ~IsNone(sessions[k])
    /\ sessions' = [k \in Uuids |-> None]
    /\ chat_req' = None
    /\ ret' = NoRet
    /\ UNCHANGED <<db_sessions, db_messages, mongo, now, next_id, liveVars, unitVars>>

NextStore ==
    \/ Tick
    \/ \E session_id \in RequestIds : GetHistory(session_id)
    \/ \E session_id \in RequestIds : ChatBegin(session_id)
    \/ ChatEnd
    \/ ChatFail
    \/ \E session_id \in RequestIds : DetectPest(session_id)
    \/ \E session_id \in RequestIds : ClearSession(session_id)
    \/ CleanupExpired
    \/ Restart

\* The session store with the requests of the chat and pest-detection
\* routes; no live connection is open.
InitStore == LiveInit /\ ~space_configured /\ StoreInit /\ UnitInit

SpecStore == InitStore /\ [][NextStore]_vars

\* ============================================================ Session object
\* A request creates a Session.
CreateSession ==
    /\ subject' = NewSession
    /\ answer' = [ op |-> "Session" ]
    /\ UNCHANGED <<storeVars, liveVars>>

\* Session.add_message (the timestamp of the entry is read by nothing)
add_message(session, role, content) ==
    [session EXCEPT !.messages = Append(@, [role |-> role, content |-> content])]

AddMessage(role, content) ==
    /\ Len(subject.messages) < MaxStored
    /\ subject' = add_message(subject, role, content)
    /\ answer' = [ op |-> "add_message" ]
    /\ UNCHANGED <<storeVars, liveVars>>

\* Session.add_detected_pest with its pest_info argument.  The mutant
\* appends the name without looking for it.
M_add_detected_pest_info(session, pest_name, pest_info) ==
    LET named == [session EXCEPT !.detected_pests = Append(@, pest_name)]
    IN  IF Truthy(pest_info)
        THEN [named EXCEPT !.latest_pest_info = pest_info]
        ELSE named
add_detected_pest_info(session, pest_name, pest_info) ==
    LET named == IF \E i \in 1..Len(session.detected_pests) :
                        session.detected_pests[i] = pest_name
                 THEN session
                 ELSE [session EXCEPT !.detected_pests = Append(@, pest_name)]
    IN  IF Truthy(pest_info)
        THEN [named EXCEPT !.latest_pest_info = pest_info]
        ELSE named

AddDetectedPest(pest_name, pest_info) ==
    /\ subject' = add_detected_pest_info(subject, pest_name, pest_info)
    /\ answer' = [ pest_name |-> pest_name, op |-> "add_detected_pest",
                   pest_info |-> pest_info ]
    /\ UNCHANGED <<storeVars, liveVars>>

\* Session.is_expired(ttl_seconds)
IsExpired(ttl_seconds) ==
    /\ answer' = [ ttl_seconds |-> ttl_seconds, op |-> "is_expired",
                   value |-> is_expired(subject, ttl_seconds) ]
    /\ UNCHANGED <<subject, storeVars, liveVars>>

\* ---------------------------------------------------------- context builder
\* Strings the context builder formats are modelled by their character
\* counts (English prompt, no crop type, no region).
BasePromptLen == 1022      \* len(base_prompt), the English text
PestsLineLen == 28         \* len("\n\nCurrently Detected Pests: ")
HeaderLen == 88            \* len(header) of the knowledge block
InfoBlockLen == 199        \* the latest_pest_info block without its label
NameLen(pest_name) == CASE pest_name = "aphids" -> 6 [] pest_name = "armyworm" -> 8
\* the block _get_pest_context formats from get_pest_info(pest_name)
BlockLen(pest_name) == CASE pest_name = "aphids" -> 533 [] pest_name = "armyworm" -> 793

\* len(sep.join(parts)), given the lengths of the parts and of sep
RECURSIVE JoinedLen(_, _)
JoinedLen(lens, sep) ==
    IF lens = <<>> THEN 0
    ELSE IF Len(lens) = 1 THEN lens[1]
    ELSE lens[1] + sep + JoinedLen(Tail(lens), sep)

\* len(_get_system_prompt(session))
system_prompt_len(session) ==
    BasePromptLen
    + IF session.detected_pests # <<>>
      THEN PestsLineLen + JoinedLen([ i \in 1..Len(session.detected_pests) |->
                                         NameLen(session.detected_pests[i]) ], 2)
      ELSE 0

\* len(_get_pest_context(session, user_question))
pest_context_len(session) ==
    IF session.detected_pests = <<>> /\ ~Truthy(session.latest_pest_info)
    THEN 0
    ELSE LET info == IF Truthy(session.latest_pest_info)
                     THEN InfoBlockLen + NameLen(Val(session.latest_pest_info).label)
                     ELSE 0
             blocks == JoinedLen([ i \in 1..Len(session.detected_pests) |->
                                     BlockLen(session.detected_pests[i]) ], 2)
         IN  HeaderLen + info + blocks
             + IF info > 0 /\ blocks > 0 THEN 2 ELSE 0

\* session.messages[-max_history:] as Python slices: -0 is 0, the whole list
recent_messages(messages, max_history) ==
    IF max_history = 0 THEN messages
    ELSE SubSeq(messages,
                IF Len(messages) > max_history THEN Len(messages) - max_history + 1 ELSE 1,
                Len(messages))

\* HybridContextManager.build_context; max_tokens is stored by __init__
\* and read by no method.
build_context(user_message, session, max_history, max_tokens) ==
    LET system_prompt == system_prompt_len(session)
        pest_context == pest_context_len(session)
        full_system_prompt == IF pest_context > 0
                              THEN system_prompt + 2 + pest_context
                              ELSE system_prompt
    IN  [ messages |-> <<[role |-> "system", content |-> "full_system_prompt"]>>
                       \o recent_messages(session.messages, max_history)
                       \o <<[role |-> "user", content |-> user_message]>>,
          system_chars |-> full_system_prompt ]

\* context_manager = HybridContextManager(max_history, max_tokens)
MaxHistories == 0..MaxHistory
TokenBudgets == {300, 6000}

BuildContext(user_message, max_history, max_tokens) ==
    /\ answer' = [ op |-> "build_context", max_history |-> max_history,
                   user_message |-> user_message, max_tokens |-> max_tokens,
                   context |-> build_context(user_message, subject, max_history, max_tokens) ]
    /\ UNCHANGED <<subject, storeVars, liveVars>>

\* The clock of the Session object.
UnitTick ==
    /\ now < MaxTime
    /\ now' = now + 1
    /\ answer' = NoAnswer
    /\ UNCHANGED <<subject, sessions, db_sessions, db_messages, mongo, next_id,
                   chat_req, ret, liveVars>>

NextSession ==
    \/ UnitTick
    \/ CreateSession
    \/ \E role \in Roles, content \in Contents : AddMessage(role, content)
    \/ \E pest_name \in PestNames, pest_info \in PestInfos :
          AddDetectedPest(pest_name, pest_info)
    \/ \E ttl_seconds \in 0..(MaxTime + 1) : IsExpired(ttl_seconds)
    \/ \E user_message \in Contents, max_history \in MaxHistories,
          max_tokens \in TokenBudgets :
          BuildContext(user_message, max_history, max_tokens)

\* One Session object with the calls made on it and with it.
InitSession == InitStore /\ ~mongo

SpecSession == InitSession /\ [][NextSession]_vars

\* ------------------------------------------------------------ store claims
\* The stored session an identifier names: the one the in-memory store
\* holds under it, else the one the database holds under it (as its id or
\* as its _id), with the messages the database holds for it.
Named(session_id) ==
    IF IsNone(session_id) \/ Val(session_id).n \notin Uuids THEN None
    ELSE LET s == Val(session_id)
         IN  IF s.kind = "uuid" /\ ~IsNone(sessions[s.n]) THEN sessions[s.n]
             ELSE IF mongo /\ ~IsNone(db_sessions[s.n])
                  THEN Some([ created_at |-> Val(db_sessions[s.n]).created_at,
                              id |-> s.n,
                              messages |-> db_messages[s.n],
                              saved |-> db_messages[s.n],
                              detected_pests |-> Val(db_sessions[s.n]).detected_pests ])
                  ELSE None

\* C18: get_session(id) never raises; when id names a stored session whose
\* age does not exceed the TTL it returns that session with identifier,
\* creation time, messages and detected pests as stored; in every other
\* case (no id, unknown id, expired session) it returns a new session,
\* stored under an identifier that was not in use and differs from id.
C18_GetSessionContract ==
    [][ ret'.op = "get_session" =>
          /\ ~ret'.raised
          /\ LET k == Val(ret'.result)
                 named == Named(ret'.id)
             IN  IF ~IsNone(named) /\ ~(now - Val(named).created_at > TTL)
                 THEN /\ k = Val(named).id
                      /\ ~IsNone(sessions'[k])
                      /\ Val(sessions'[k]).created_at = Val(named).created_at
                      /\ Val(sessions'[k]).messages = Val(named).messages
                      /\ Val(sessions'[k]).detected_pests = Val(named).detected_pests
                 ELSE /\ k = next_id
                      /\ IsNone(sessions[k]) /\ IsNone(db_sessions[k])
                      /\ ret'.id # Some(Uuid(k))
                      /\ sessions'[k] = Some([ created_at |-> now, id |-> k,
                                               messages |-> 0, saved |-> 0,
                                               detected_pests |-> <<>> ])
      ]_vars

\* C19: clear_session(id) returns true exactly when a session with that
\* identifier existed, in memory or in the database, and when it returns
\* neither holds the session nor its messages; hence a second call returns
\* false and a later get_session(id) finds nothing under id.
C19_ClearSessionContract ==
    [][ ret'.op = "clear_session" =>
          LET s == Val(ret'.id)
              existed == /\ s.kind = "uuid" /\ s.n \in Uuids
                         /\ \/ ~IsNone(sessions[s.n])
                            \/ mongo /\ ~IsNone(db_sessions[s.n])
          IN  /\ Val(ret'.result) = existed
              /\ s.kind = "uuid" /\ s.n \in Uuids =>
                    /\ IsNone(sessions'[s.n])
                    /\ IsNone(db_sessions'[s.n])
                    /\ db_messages'[s.n] = 0
      ]_vars

\* C20: when cleanup_expired returns, the in-memory store holds no session
\* older than the TTL and holds every other session as it was, and the call
\* does not raise; and whatever the order in which requests call
\* get_session, update_session and cleanup_expired, none of these calls
\* takes a session that is not older than the TTL out of the store.
C20_CleanupExpiredContract ==
    [][ /\ ret'.op = "cleanup_expired" =>
             /\ ~ret'.raised
             /\ \A k \in Uuids :
                   IF ~IsNone(sessions[k]) /\ now - Val(sessions[k]).created_at > TTL
                   THEN IsNone(sessions'[k])
                   ELSE sessions'[k] = sessions[k]
        /\ ret'.op \in {"cleanup_expired", "get_session", "update_session"} =>
             \A k \in Uuids :
                ~IsNone(sessions[k]) /\ now - Val(sessions[k]).created_at <= TTL
                   => ~IsNone(sessions'[k])
      ]_vars

\* cleanup_expired has just removed a session and kept a younger one.
C20_Witness ==
    /\ ret.op = "cleanup_expired"
    /\ Val(ret.result) >= 1
    /\ \E k \in Uuids : ~IsNone(sessions[k]) /\ now - Val(sessions[k]).created_at <= TTL

\* ---------------------------------------------------- Session object claims
\* C21: is_expired(ttl) answers true exactly when now - created_at > ttl,
\* so false at an age of exactly ttl; add_message and add_detected_pest
\* leave created_at as it was, so they do not postpone expiry.
C21_ExpiryFromCreationTime ==
    [][ /\ answer'.op = "is_expired" =>
             (answer'.value <=> (now - subject.created_at > answer'.ttl_seconds))
        /\ answer'.op \in {"add_message", "add_detected_pest"} =>
             subject'.created_at = subject.created_at
      ]_vars

\* A session that holds messages and pests is asked at an age of exactly
\* ttl and answers that it is not expired.
C21_Witness ==
    /\ answer.op = "is_expired"
    /\ answer.ttl_seconds > 0
    /\ now - subject.created_at = answer.ttl_seconds
    /\ ~answer.value
    /\ subject.messages # <<>>
    /\ subject.detected_pests # <<>>

\* C22: after an add_detected_pest call detected_pests holds every name it
\* held before and the name just added, each once; latest_pest_info is the
\* pest_info of the call when it passed one with content, and is what it
\* was when the call passed none (None or an empty dict).
C22_DetectedPestsNoDuplicates ==
    [][ answer'.op = "add_detected_pest" =>
          LET before == subject.detected_pests
              after == subject'.detected_pests
              info == answer'.pest_info
          IN  /\ \A i, j \in 1..Len(after) : after[i] = after[j] => i = j
              /\ \A i \in 1..Len(before) : \E j \in 1..Len(after) : after[j] = before[i]
              /\ \E j \in 1..Len(after) : after[j] = answer'.pest_name
              /\ subject'.latest_pest_info =
                    IF info # None /\ ~Val(info).empty THEN info
                    ELSE subject.latest_pest_info
      ]_vars

\* A name the session already held is added again, without pest_info,
\* after an earlier call recorded the pest_info of another pest.
C22_Witness ==
    /\ answer.op = "add_detected_pest"
    /\ Len(subject.detected_pests) = 2
    /\ answer.pest_name = subject.detected_pests[1]
    /\ answer.pest_info = None
    /\ subject.latest_pest_info = Some(PestInfo(subject.detected_pests[2]))

\* C23: update_session is an idempotent upsert: when it returns, the
\* in-memory store holds the session under its identifier; and saving a
\* session whose messages are the ones the database holds already (a
\* session saved before, or one just loaded back from the database) gives
\* the database no message a second time.
C23_UpdateSessionIdempotent ==
    [][ ret'.op = "update_session" =>
          LET k == Val(ret'.id).n
          IN  /\ ~IsNone(sessions'[k])
              /\ Val(sessions'[k]).id = k
              /\ ( /\ IsNone(sessions[k]) \/ Val(sessions[k]).messages = db_messages[k]
                   /\ Val(sessions'[k]).messages = db_messages[k] )
                 => db_messages'[k] = db_messages[k]
      ]_vars

\* C24: for every max_history >= 0 and every session with n messages,
\* build_context returns 1 + min(n, max_history) + 1 messages: a system
\* message, the last min(n, max_history) stored messages in their order
\* with role and content, and a user message with the new utterance; the
\* session is left as it was.
C24_ContextWindow ==
    [][ answer'.op = "build_context" =>
          LET n == Len(subject.messages)
              k == IF n < answer'.max_history THEN n ELSE answer'.max_history
              context == answer'.context.messages
          IN  /\ Len(context) = 1 + k + 1
              /\ context[1].role = "system"
              /\ \A i \in 1..k : context[1 + i] = subject.messages[n - k + i]
              /\ context[Len(context)] =
                    [role |-> "user", content |-> answer'.user_message]
              /\ subject' = subject
      ]_vars

\* C25: the system message build_context produces stays within the token
\* budget max_tokens, at one token per 4 characters, whatever pests the
\* session holds.
C25_SystemMessageWithinBudget ==
    [][ answer'.op = "build_context" =>
          answer'.context.system_chars \div 4 <= answer'.max_tokens
      ]_vars

\* ============================================================ direct calls
\* The functions of the pipeline called directly, with arguments of the
\* caller's choosing.
T_debug == <<"D","e","b","u","g","g","i","n","g">>
T_warm == <<"w","a","r","m"," ","d","a","y">>
T_keet == <<"U+092F","U+0939"," ","U+0915","U+0940","U+091F","?">>
IntentQueries == Transcripts \cup {T_debug, T_warm, T_keet}

\* Results of quick_analyze and other dicts with its keys; confidence in
\* thousandths.
VisionResults ==
    { [ has_relevant_content |-> h, objects_detected |-> <<>>,
        confidence |-> c, description |-> "" ] :
      h \in BOOLEAN, c \in {0, 500, 501, 1000} }

MatchIntent(user_query, vision_result) ==
    /\ answer' = [ user_query |-> user_query, vision_result |-> vision_result,
                   result |-> match_intent(user_query, vision_result),
                   op |-> "match_intent" ]
    /\ UNCHANGED <<subject, storeVars, liveVars>>

\* What _get_client and client.predict do when called directly: a value of
\* one of the shapes analyze_image_heavy tells apart, or an exception (the
\* label then names the failure).
HeavyOutcomes ==
    RemoteOutcomes \cup {
      [ confidence |-> 600, kind |-> "dict", label |-> "Whitefly" ],
      [ confidence |-> 500, kind |-> "dict", label |-> "Thrips" ],
      [ confidence |-> 801, kind |-> "dict", label |-> "Mite" ],
      [ confidence |-> 0, kind |-> "dict_no_keys", label |-> "" ],
      [ confidence |-> 0, kind |-> "dict_text_confidence", label |-> "Aphid" ],
      [ confidence |-> 400, kind |-> "tuple", label |-> "Beetle" ],
      [ confidence |-> 900, kind |-> "tuple", label |-> "" ],
      [ confidence |-> 0, kind |-> "tuple_short", label |-> "Beetle" ],
      [ confidence |-> 0, kind |-> "str", label |-> "Aphid" ],
      [ confidence |-> 0, kind |-> "raise", label |-> "connection" ],
      [ confidence |-> 0, kind |-> "raise", label |-> "authentication" ],
      [ confidence |-> 0, kind |-> "raise", label |-> "not found" ],
      [ confidence |-> 0, kind |-> "raise", label |-> "timeout" ] }

\* The try block of analyze_image_heavy: the configuration test, the
\* remote call, the parsing.  It returns a record or raises.
heavy_try(configured, result) ==
    IF ~configured \/ result.kind = "raise"
    THEN [ raised |-> TRUE, value |-> None ]
    \* `confidence > 0.8` with a confidence that is no number: TypeError
    ELSE IF result.kind = "dict_text_confidence"
    THEN [ raised |-> TRUE, value |-> None ]
    \* result.get("label", "Unknown"), result.get("confidence", 0.0)
    ELSE IF result.kind = "dict_no_keys"
    THEN [ raised |-> FALSE,
           value |-> Some(ParseHeavyResult(
                        [confidence |-> 0, kind |-> "dict", label |-> "Unknown"])) ]
    ELSE [ raised |-> FALSE, value |-> Some(ParseHeavyResult(result)) ]

\* HuggingFaceService.analyze_image_heavy: the except clause turns every
\* exception of the try block into the error record.  The mutant has no
\* except clause.
M_analyze_image_heavy(configured, result) == heavy_try(configured, result)
analyze_image_heavy(configured, result) ==
    LET body == heavy_try(configured, result)
    IN  IF body.raised THEN [ raised |-> FALSE, value |-> Some(ErrorRecord) ]
        ELSE body

AnalyzeImageHeavy(configured, result) ==
    /\ answer' = [ op |-> "analyze_image_heavy", configured |-> configured,
                   outcome |-> result,
                   returned |-> analyze_image_heavy(configured, result) ]
    /\ UNCHANGED <<subject, storeVars, liveVars>>

\* ------------------------------------------------------ POST /detect-pest
\* settings.MAX_FILE_SIZE and settings.ALLOWED_EXTENSIONS
MAX_FILE_SIZE == 10485760
ALLOWED_EXTENSIONS == {"image/jpeg", "image/jpg", "image/png", "image/webp"}

\* The upload: its declared content type and the number of bytes it holds.
ContentTypes == {"image/jpeg", "image/webp", "image/gif", "text/plain"}
FileSizes == {0, 12, MAX_FILE_SIZE, MAX_FILE_SIZE + 1}
Uploads == [ content_type : ContentTypes, size : FileSizes ]

\* validate_image_file: the HTTPException it raises, or none.  The mutant
\* leaves out the test for an empty file.
M_validate_image_file(file) ==
    IF file.content_type \notin ALLOWED_EXTENSIONS
    THEN [ raised |-> TRUE, status_code |-> 400, detail |-> "Invalid file type" ]
    ELSE IF file.size > MAX_FILE_SIZE
    THEN [ raised |-> TRUE, status_code |-> 400, detail |-> "File too large" ]
    ELSE [ raised |-> FALSE, status_code |-> 0, detail |-> "" ]
validate_image_file(file) ==
    IF file.content_type \notin ALLOWED_EXTENSIONS
    THEN [ raised |-> TRUE, status_code |-> 400, detail |-> "Invalid file type" ]
    ELSE IF file.size > MAX_FILE_SIZE
    THEN [ raised |-> TRUE, status_code |-> 400, detail |-> "File too large" ]
    ELSE IF file.size = 0
    THEN [ raised |-> TRUE, status_code |-> 400, detail |-> "Uploaded file is empty" ]
    ELSE [ raised |-> FALSE, status_code |-> 0, detail |-> "" ]

\* HuggingFaceService.predict_pest returns a label or raises.
PredictOutcomes == {"aphid", "RAISE"}

\* detect_pest, the whole handler: validate_image_file, predict_pest, then
\* get_session, add_detected_pest and update_session.  An HTTPException is
\* raised again and becomes the response with its status code; any other
\* exception becomes the 500 response.  answer holds the request, the status
\* of the response and whether predict_pest was called.
DetectPestUpload(file, session_id, prediction) ==
    LET v == validate_image_file(file)
        r == get_session(session_id)
        session == add_detected_pest(Val(r.sessions[r.result]), prediction)
        u == update_session(r.sessions, r.db_sessions, session)
        Answer(status, predicted) ==
            [ op |-> "detect_pest", session_id |-> session_id, status |-> status,
              file |-> file, predicted |-> predicted ]
    IN  IF v.raised
        THEN /\ answer' = Answer(v.status_code, FALSE)
             /\ UNCHANGED <<subject, storeVars, liveVars>>
        ELSE IF prediction = "RAISE"
        THEN /\ answer' = Answer(500, TRUE)
             /\ UNCHANGED <<subject, storeVars, liveVars>>
        ELSE /\ next_id <= MaxSessions
             /\ next_id' = r.next_id
             /\ IF r.raised
                THEN /\ answer' = Answer(500, TRUE)
                     /\ ret' = Ret("get_session", session_id, Some(r.result), TRUE)
                     /\ sessions' = r.sessions
                     /\ db_sessions' = r.db_sessions
                     /\ UNCHANGED db_messages
                ELSE /\ \A k \in Uuids : u.db_messages[k] <= MaxDbMessages
                     /\ answer' = Answer(200, TRUE)
                     /\ ret' = Ret("update_session", Some(Uuid(r.result)), None, FALSE)
                     /\ sessions' = u.sessions
                     /\ db_sessions' = u.db_sessions
                     /\ db_messages' = u.db_messages
             /\ UNCHANGED <<subject, mongo, now, chat_req, liveVars>>

NextCalls ==
    \/ UnitTick
    \/ CreateSession
    \/ \E user_query \in IntentQueries, vision_result \in VisionResults :
          MatchIntent(user_query, vision_result)
    \/ \E configured \in BOOLEAN, result \in HeavyOutcomes :
          AnalyzeImageHeavy(configured, result)

SpecCalls == InitSession /\ [][NextCalls]_vars

\* C26: match_intent answers should_call_heavy_model true exactly when the
\* transcript is pest-related and the triage verdict is relevant, whatever
\* the confidence and the score; the reason is the escalation reason when
\* both hold, the no-visual reason when only the transcript is pest-related,
\* the general-question reason when only the triage is relevant, the
\* neither reason otherwise; the call changes nothing else.
C26_MatchIntentDecision ==
    [][ answer'.op = "match_intent" =>
          LET pest == answer'.user_query \in {T_bug, T_debug, T_keet}
              relevant == answer'.vision_result.has_relevant_content
              result == answer'.result
          IN  /\ result.should_call_heavy_model <=> (pest /\ relevant)
              /\ result.reason =
                    IF pest /\ relevant
                    THEN "Pest-related query with relevant objects detected"
                    ELSE IF pest THEN "Pest query but no relevant objects in frame"
                    ELSE IF relevant THEN "General question, skipping heavy detection"
                    ELSE "No pest query and no relevant content"
              /\ result.is_pest_query = pest
              /\ result.has_visual_content = relevant
              /\ UNCHANGED <<subject, storeVars, liveVars>>
      ]_vars

\* A pest-related transcript met a triage that is not relevant although its
\* confidence is high: the score is 0.7 and the heavy model is not called.
C26_Witness ==
    /\ answer.op = "match_intent"
    /\ answer.user_query = T_debug
    /\ ~answer.vision_result.has_relevant_content
    /\ answer.vision_result.confidence = 1000
    /\ answer.result.match_score = 700
    /\ ~answer.result.should_call_heavy_model
    /\ answer.result.reason = "Pest query but no relevant objects in frame"

\* C27: analyze_image_heavy does not raise: whatever the remote call does,
\* it returns a record with pest_name, confidence, severity and
\* description; a result of a shape it does not know gives pest_name
\* Unknown with confidence 0.0, and a failure (no model configured, or the
\* remote call raising: connection, authentication, not found, timeout)
\* gives pest_name Error with confidence 0.0.
C27_HeavyDetectorNeverRaises ==
    [][ answer'.op = "analyze_image_heavy" =>
          LET outcome == answer'.outcome
              returned == answer'.returned
          IN  /\ ~returned.raised
              /\ returned.value # None
              /\ DOMAIN Val(returned.value) =
                    {"pest_name", "confidence", "severity", "description"}
              /\ (answer'.configured /\ outcome.kind \in {"other", "tuple_short"}) =>
                    /\ Val(returned.value).pest_name = "Unknown"
                    /\ Val(returned.value).confidence = 0
              /\ (~answer'.configured \/ outcome.kind = "raise") =>
                    /\ Val(returned.value).pest_name = "Error"
                    /\ Val(returned.value).confidence = 0
      ]_vars

\* The remote call timed out with the model configured, and the caller got
\* the error record.
C27_Witness ==
    /\ answer.op = "analyze_image_heavy"
    /\ answer.configured
    /\ answer.outcome.kind = "raise"
    /\ answer.outcome.label = "timeout"
    /\ ~answer.returned.raised
    /\ Val(answer.returned.value).pest_name = "Error"

\* C28: when text_to_speech has raised (its retries used up), the step that
\* resumes the run sends exactly one event: a text_only event with the whole
\* reply text and the error note, and no tts_audio event.  It holds of Spec
\* and fails of SpecPair, where the registration under the session
\* identifier can be gone when the event is sent (C7).
C28_TtsFailureSendsTextOnly ==
    [][ \A c \in Conns :
          (pc[c] = "tts_wait" /\ pc'[c] = "recv" /\ rx' = TtsRx("raise"))
          => /\ Len(tx') = 1
             /\ tx'[1].ev.type = "text_only"
             /\ tx'[1].ev.text = run[c].text
             /\ tx'[1].ev.error = "TTS temporarily unavailable - showing text only" ]_vars

\* Detection requests alone, against the in-memory store, as time passes.
NextUpload ==
    \/ UnitTick
    \/ \E file \in Uploads, session_id \in RequestIds, prediction \in PredictOutcomes :
          DetectPestUpload(file, session_id, prediction)

SpecUpload == InitSession /\ [][NextUpload]_vars

\* C29: a detection request whose upload has a content type outside the
\* allowed image types, or more bytes than the maximum, or no bytes at all,
\* is answered with status 400; predict_pest is not called and the session
\* store is left as it was: no session created, none modified.
C29_InvalidUploadRejected ==
    [][ ( /\ answer'.op = "detect_pest"
          /\ answer' # answer
          /\ \/ answer'.file.content_type \notin
                   {"image/jpeg", "image/jpg", "image/png", "image/webp"}
             \/ answer'.file.size > 10485760
             \/ answer'.file.size = 0 )
        => /\ answer'.status = 400
           /\ ~answer'.predicted
           /\ UNCHANGED <<sessions, db_sessions, db_messages, next_id>> ]_vars

\* An empty upload of an allowed type was rejected while the store holds a
\* session, and the request named that session.
C29_Witness ==
    /\ answer.op = "detect_pest"
    /\ answer.file = [content_type |-> "image/jpeg", size |-> 0]
    /\ answer.status = 400
    /\ answer.session_id = Some(Uuid(1))
    /\ ~IsNone(sessions[1])

\* C30: a history request for an identifier under which neither the
\* in-memory store nor the database holds a session is answered with status
\* 404, and no session is created by it.
C30_HistoryOfUnknownIs404 ==
    [][ ( /\ ret'.op = "get_session" /\ "status" \in DOMAIN ret'
          /\ ~IsNone(ret'.id) /\ IsNone(Named(ret'.id)) )
        => /\ ret'.status = 404
           /\ UNCHANGED <<sessions, db_sessions, next_id>> ]_vars

\* ------------------------------------------------------ later live claims
\* The history of the LiveSession a run holds, after a step: the object as
\* the step left it, or as it was when the step let go of it.
HistoryAfter(i) ==
    IF live_sessions'[i] = Freed THEN live_sessions[i].messages
    ELSE live_sessions'[i].messages

\* C31: the list a voice run gives the language model is one system message
\* followed by the 10 most recent entries of the session's history (all of
\* them when there are fewer), the last being the user entry of the current
\* utterance; no step shortens the history of a session still in use; and
\* when the run ends the history ends with the user entry and the assistant
\* entry of its utterance.
C31_WindowForModelFullHistoryKept ==
    [][ /\ \A c \in Conns :
             (pc[c] # "llm_wait" /\ pc'[c] = "llm_wait")
             => LET m == run'[c].messages
                    h == live_sessions'[run'[c].session].messages
                    n == Len(m) - 1
                IN  /\ n >= 1 /\ n <= 10
                    /\ n = IF Len(h) > 10 THEN 10 ELSE Len(h)
                    /\ m[1].role = "system"
                    /\ \A k \in 1..n : m[1 + k] = h[Len(h) - n + k]
                    /\ m[Len(m)] = [role |-> "user", content |-> run'[c].user_query]
        /\ \A i \in 1..Len(live_sessions) :
             live_sessions'[i] # Freed
             => /\ Len(live_sessions'[i].messages) >= Len(live_sessions[i].messages)
                /\ SubSeq(live_sessions'[i].messages, 1, Len(live_sessions[i].messages))
                      = live_sessions[i].messages
        /\ \A c \in Conns :
             (pc[c] \in {"llm_wait", "tts_wait"} /\ pc'[c] = "recv")
             => LET h == HistoryAfter(run[c].session)
                IN  /\ Len(h) >= 2
                    /\ h[Len(h) - 1] = [role |-> "user", content |-> run[c].user_query]
                    /\ h[Len(h)].role = "assistant"
      ]_vars

\* C32: the match score of match_intent, in thousandths, is 500 if the
\* transcript is pest-related, plus 300 if the triage verdict is relevant,
\* plus 200 if the triage confidence is above 500 (exactly 500 adds
\* nothing); it lies between 0 and 1000.
C32_MatchScore ==
    [][ answer'.op = "match_intent" =>
          LET pest == answer'.user_query \in {T_bug, T_debug, T_keet}
              relevant == answer'.vision_result.has_relevant_content
              confident == answer'.vision_result.confidence > 500
              score == answer'.result.match_score
          IN  /\ score = (IF pest THEN 500 ELSE 0) + (IF relevant THEN 300 ELSE 0)
                         + (IF confident THEN 200 ELSE 0)
              /\ score >= 0 /\ score <= 1000
      ]_vars

\* A pest-related transcript met a relevant triage of confidence exactly
\* 0.5: the score is 0.8.
C32_Witness ==
    /\ answer.op = "match_intent"
    /\ answer.user_query = T_bug
    /\ answer.vision_result.has_relevant_content
    /\ answer.vision_result.confidence = 500
    /\ answer.result.match_score = 800

Transient == {"handshake", "connecttimeout", "ssl"}
Rejections == {"401", "404"}
AttemptOutcomes == {"ok"} \cup Transient \cup Rejections \cup {"500"}

\* max_retries and the backoff step of predict_pest, in milliseconds
PredictMaxRetries == 3
PredictBackoff == 1500

\* A call of the heavy detector as answer holds it: the method, whether
\* HF_TOKEN is set, where the call stands, the attempts made so far (the
\* constructor Client(...) of _get_client and client.predict), the sleeps
\* made so far, how the call ended, and whether the temporary image file
\* the method itself wrote exists (predict_pest writes one; the file
\* analyze_image_heavy reads is its caller's).
HeavyOps == {"predict_pest", "analyze_image_heavy"}
PredictAttempts(a) == { i \in 1..Len(a.attempts) : a.attempts[i].call = "predict" }
ClientAttempts(a) == { i \in 1..Len(a.attempts) : a.attempts[i].call = "Client" }
CallOver(a) == IF a.op = "" THEN TRUE ELSE a.phase = "done"

\* predict_pest / analyze_image_heavy (with a space configured) up to
\* _get_client.
HeavyCall(op, token) ==
    /\ CallOver(answer)
    /\ answer' = [ result |-> "", op |-> op, attempts |-> <<>>,
                   phase |-> "client", token |-> token, sleeps |-> <<>>,
                   temp_file |-> (op = "predict_pest") ]
    /\ UNCHANGED <<subject, storeVars, liveVars>>

\* The end of the call; the finally clause of predict_pest unlinks the
\* temporary file it wrote.
Done(a, result) ==
    [a EXCEPT !.phase = "done", !.result = result, !.temp_file = FALSE]
\* What a failure makes of the call: predict_pest raises, and
\* analyze_image_heavy returns its error record.
Failed(a) ==
    Done(a, IF a.op = "predict_pest" THEN "raised" ELSE "error_record")

\* _get_client: Client(space, hf_token=...), and after a failure with a
\* token once more Client(space) without it; a failure of the last
\* constructor call is raised.
GetClientAttempt(outcome) ==
    /\ answer.op \in HeavyOps /\ answer.phase = "client"
    /\ LET a == [answer EXCEPT !.attempts =
                    Append(@, [outcome |-> outcome, call |-> "Client"])]
       IN  answer' = IF outcome = "ok" THEN [a EXCEPT !.phase = "predict"]
                     ELSE IF answer.token /\ ClientAttempts(answer) = {} THEN a
                     ELSE Failed(a)
    /\ UNCHANGED <<subject, storeVars, liveVars>>

\* client.predict: analyze_image_heavy calls it once; predict_pest calls it
\* in its retry loop and sleeps attempt * 1.5 s after a transient failure
\* of an attempt that is not the last.
PredictAttempt(outcome) ==
    /\ answer.op \in HeavyOps /\ answer.phase = "predict"
    /\ LET attempt == Cardinality(PredictAttempts(answer)) + 1
           a == [answer EXCEPT !.attempts =
                    Append(@, [outcome |-> outcome, call |-> "predict"])]
       IN  answer' =
             IF outcome = "ok" THEN Done(a, "value")
             ELSE IF answer.op = "analyze_image_heavy" THEN Failed(a)
             ELSE IF outcome \in Transient /\ attempt < PredictMaxRetries
             THEN [a EXCEPT !.sleeps = Append(@, attempt * PredictBackoff)]
             ELSE Failed(a)
    /\ UNCHANGED <<subject, storeVars, liveVars>>

NextRemote ==
    \/ \E op \in HeavyOps, token \in BOOLEAN : HeavyCall(op, token)
    \/ \E outcome \in AttemptOutcomes : GetClientAttempt(outcome)
    \/ \E outcome \in AttemptOutcomes : PredictAttempt(outcome)

SpecRemote == InitSession /\ [][NextRemote]_vars

\* C34: in a call of the heavy detector, on either path, client.predict is
\* attempted at most 3 times; an attempt that fails with a transient
\* network error is followed by a retry unless it was the third; there is a
\* sleep before each retry; an attempt rejected with 401 or 404 is never
\* followed by a retry; and after the third attempt the call is over.
C34_TransientFailureRetried ==
    answer.op \in HeavyOps
    => LET p == PredictAttempts(answer)
           n == Cardinality(p)
       IN  /\ n <= 3
           /\ \A i \in p :
                 /\ ( /\ answer.attempts[i].outcome \in {"handshake", "connecttimeout", "ssl"}
                      /\ Cardinality({ j \in p : j <= i }) < 3
                      /\ answer.phase = "done" )
                    => \E j \in p : j > i
                 /\ answer.attempts[i].outcome \in {"401", "404"}
                    => ~\E j \in p : j > i
           /\ n > 0 => Len(answer.sleeps) >= n - 1
           /\ (n > 0 /\ answer.phase = "done") => Len(answer.sleeps) = n - 1
           /\ \A k \in 1..Len(answer.sleeps) : answer.sleeps[k] > 0
           /\ n = 3 => answer.phase = "done"

\* A behaviour of the live endpoint, or a behaviour of heavy-detector calls
\* made by the upload path: the two share no state.
LiveUntouched ==
    /\ \A c \in Conns : pc[c] = "closed"
    /\ live_sessions = <<>>
    /\ rx = NoRx /\ tx = <<>>
NextFiles ==
    \/ answer.op = "" /\ Next
    \/ LiveUntouched /\ NextRemote

SpecFiles == Init /\ [][NextFiles]_vars

\* C35: a temporary image file exists only while the operation that wrote
\* it is under way.  In live mode the file of a run exists only while that
\* run, on the escalation path, is between writing it and its finally
\* clause; in particular it is gone when the language-model call has
\* raised and when the run has ended.  On the upload path the file
\* predict_pest wrote is gone when predict_pest has returned or raised.
C35_TempFileDeleted ==
    /\ \A c \in Conns :
          c \in temp_files
          => /\ pc[c] \in {"heavy_wait", "llm_wait", "tts_wait"}
             /\ run[c].path = "heavy"
             /\ run[c].text # "Pest detection model is not configured yet."
    /\ (answer.op = "predict_pest" /\ answer.phase = "done") => ~answer.temp_file

\* The language-model call of an escalated run raised: the error response
\* is being spoken and the file is gone.
C35_Witness ==
    /\ pc[1] = "tts_wait"
    /\ run[1].path = "heavy"
    /\ run[1].text = "Pest detection model is not configured yet."
    /\ 1 \notin temp_files

\* ---------------------------------------------------------------------
\* EdgeTTSService.text_to_speech and its retries
\* ---------------------------------------------------------------------

\* max_retries and retry_delay (in milliseconds) of EdgeTTSService
max_retries == 3
retry_delay == 1000

Languages == {"en", "hi"}
Genders == {"female", "male"}

\* self.voices.get(voice_key, self.voices["en"]) with voice_key the
\* language, or the language followed by "-male"
voices(lang, gender) ==
    CASE lang = "en" /\ gender = "female" -> "en-IN-NeerjaNeural"
      [] lang = "en" /\ gender = "male" -> "en-IN-PrabhatNeural"
      [] lang = "hi" /\ gender = "female" -> "hi-IN-SwaraNeural"
      [] lang = "hi" /\ gender = "male" -> "hi-IN-MadhurNeural"
      [] OTHER -> "en-IN-NeerjaNeural"

\* What one synthesis attempt (communicate.save and reading the file back)
\* can end with: the audio bytes, or an exception with its message.
E_403 == <<"4","0","3">>
E_status403 == <<"s","t","a","t","u","s","=","4","0","3",",">>
E_500 == <<"5","0","0">>
E_timeout == <<"t","i","m","e","o","u","t">>
SynthesisOutcomes ==
    {[ error_msg |-> <<>>, ok |-> TRUE ]}
    \cup { [ error_msg |-> e, ok |-> FALSE ] :
             e \in {E_403, E_status403, E_500, E_timeout} }

\* `"403" in error_msg and attempt < self.max_retries - 1`, with attempt
\* counted from 0 as range() does
M_ShouldRetry(err, attempt) == attempt < max_retries - 1
ShouldRetry(err, attempt) ==
    Contains(err, <<"4","0","3">>) /\ attempt < max_retries - 1

\* text_to_speech up to its loop.  answer holds the call: the voice chosen,
\* where the call stands, the outcome of each attempt made, the sleeps
\* made, and how the call ended.
TextToSpeech(lang, gender) ==
    /\ CallOver(answer)
    /\ answer' = [ result |-> "", error |-> <<>>,
                   language |-> lang, op |-> "text_to_speech",
                   attempts |-> <<>>, phase |-> "loop", sleeps |-> <<>>,
                   gender |-> gender, voice |-> voices(lang, gender) ]
    /\ UNCHANGED <<subject, storeVars, liveVars>>

\* One iteration of `for attempt in range(self.max_retries)`: the sleep of
\* retry_delay * (attempt + 1) when attempt > 0, the synthesis, and then
\* the return of the audio, `continue`, or `raise`.
SynthesisAttempt(outcome) ==
    /\ answer.op = "text_to_speech" /\ answer.phase = "loop"
    /\ LET attempt == Len(answer.attempts)
           a == [answer EXCEPT
                   !.sleeps = IF attempt > 0
                              THEN Append(@, retry_delay * (attempt + 1))
                              ELSE @,
                   !.attempts = Append(@, outcome)]
       IN  /\ attempt < max_retries
           /\ answer' =
                IF outcome.ok
                THEN [a EXCEPT !.phase = "done", !.result = "audio"]
                ELSE IF ShouldRetry(outcome.error_msg, attempt) THEN a
                ELSE [a EXCEPT !.phase = "done", !.result = "raised",
                               !.error = outcome.error_msg]
    /\ UNCHANGED <<subject, storeVars, liveVars>>

NextTts ==
    \/ \E lang \in Languages, gender \in Genders :
          TextToSpeech(lang, gender)
    \/ \E outcome \in SynthesisOutcomes : SynthesisAttempt(outcome)

SpecTts == InitSession /\ [][NextTts]_vars

\* C36: a call of text_to_speech makes at most 3 synthesis attempts; an
\* attempt is followed by another only if it failed with a message
\* containing "403" and was not the third; a success ends the call with
\* the audio; any other failure, and a 403 failure of the third attempt,
\* ends the call with that failure raised; and the call is over once the
\* third attempt has been made.
C36_TtsRetriesOn403Only ==
    answer.op = "text_to_speech"
    => LET n == Len(answer.attempts)
           Is403(i) == /\ ~answer.attempts[i].ok
                       /\ Contains(answer.attempts[i].error_msg, <<"4","0","3">>)
       IN  /\ n <= 3
           /\ \A i \in 1..(n - 1) : Is403(i) /\ i < 3
           /\ answer.phase = "loop" => (n < 3 /\ (n > 0 => Is403(n)))
           /\ answer.phase = "done"
              => /\ n > 0
                 /\ answer.result \in {"audio", "raised"}
                 /\ answer.result = "audio" <=> answer.attempts[n].ok
                 /\ answer.result = "raised"
                    => /\ answer.error = answer.attempts[n].error_msg
                       /\ (~Is403(n) \/ n = 3)
           /\ answer.phase \in {"loop", "done"}

\* The third attempt failed with 403 and the failure was raised.
C36_Witness ==
    /\ answer.op = "text_to_speech"
    /\ answer.phase = "done"
    /\ Len(answer.attempts) = 3
    /\ answer.result = "raised"
    /\ Contains(answer.error, <<"4","0","3">>)

\* C37: the wait before the k-th retry of text_to_speech is
\* retry_delay * 2^(k-1), so that each wait is twice the one before it.
C37_ExponentialBackoff ==
    answer.op = "text_to_speech"
    => /\ \A k \in 1..Len(answer.sleeps) :
             answer.sleeps[k] = 1000 * 2^(k - 1)
       /\ \A k \in 2..Len(answer.sleeps) :
             answer.sleeps[k] = 2 * answer.sleeps[k - 1]

\* C38: when a voice run has ended, whatever the language-model call gave,
\* the history of its session has even length and alternates user entry,
\* assistant entry: no user prompt is left without the assistant reply
\* that answers it.
C38_HistoryAlternates ==
    [][ \A c \in Conns :
          (pc[c] \in {"llm_wait", "tts_wait"} /\ pc'[c] = "recv")
          => LET h == HistoryAfter(run[c].session)
             IN  /\ Len(h) % 2 = 0
                 /\ \A k \in 1..Len(h) :
                       h[k].role = IF k % 2 = 1 THEN "user" ELSE "assistant"
      ]_vars

\* C39: when a voice event escalates, the image handed to the heavy
\* detector is the image of the cached entry whose triage result the intent
\* decision used, that triage result is the triage of this very image, and
\* when the event received just before the voice event was a frame event
\* of the connection, the image is the image of that frame: an older
\* frame's image is not sent once a newer frame has been received.
C39_HeavyGetsLatestFrame ==
    [][ \A c \in Conns :
          (pc[c] = "recv" /\ pc'[c] = "heavy_start")
          => LET latest == latest_vision[sid[c]]
                 image_bytes == Val(run'[c].image_bytes)
                 frame_data == Val(rx.msg.image)
                 part == IF Len(frame_data) > 1 THEN frame_data[2] ELSE frame_data[1]
             IN  /\ ~IsNone(latest)
                 /\ image_bytes = Val(latest).image_bytes
                 /\ Val(latest).vision_result = quick_analyze(image_bytes)
                 /\ match_intent(run'[c].user_query,
                                 Val(latest).vision_result).should_call_heavy_model
                 /\ ( /\ rx.conn = c
                      /\ rx.msg.json = "object" /\ rx.msg.type = "frame"
                      /\ ~IsNone(rx.msg.image) )
                    => b64decode(part) = Some(image_bytes)
      ]_vars

\* ---------------------------------------------------------------------
\* POST /chat on the Session object it holds
\* ---------------------------------------------------------------------

MaxChatHistory == 6    \* entries the history of the chat Session comes to hold

\* What ollama_service.chat ends with: the reply, or an exception.
ChatOutcomes ==
    {[ text |-> "", ok |-> FALSE ]}
    \cup { [ text |-> t, ok |-> TRUE ] : t \in Contents }

\* Step 5 of chat: both add_message calls.  The mutant records the reply
\* before the question.
M_chat_save(session, message, ai_response) ==
    add_message(add_message(session, "assistant", ai_response), "user", message)
chat_save(session, message, ai_response) ==
    add_message(add_message(session, "user", message), "assistant", ai_response)

\* chat up to the language-model call: the context is built from the
\* Session as it is.  answer holds the request: its message, the list given
\* to the model, where it stands, the store calls it made, and the status
\* it was answered with.
ChatRequest(message) ==
    /\ CallOver(answer)
    /\ answer' = [ message |-> message, messages |-> build_context(message, subject, 8, 6000).messages, op |-> "chat",
                   response |-> "",
                   status |-> 0, phase |-> "llm", store_calls |-> <<>> ]
    /\ UNCHANGED <<subject, storeVars, liveVars>>

\* chat after ollama_service.chat returned (steps 5 and 6) or raised (the
\* except clause and its HTTPException).
ChatReply(outcome) ==
    /\ answer.op = "chat" /\ answer.phase = "llm"
    /\ IF outcome.ok
       THEN /\ Len(subject.messages) + 2 <= MaxChatHistory
            /\ subject' = chat_save(subject, answer.message, outcome.text)
            /\ answer' = [answer EXCEPT !.phase = "done", !.status = 200,
                                        !.response = outcome.text,
                                        !.store_calls = <<"update_session">>]
       ELSE /\ subject' = subject
            /\ answer' = [answer EXCEPT !.phase = "done", !.status = 500]
    /\ UNCHANGED <<storeVars, liveVars>>

NextChat ==
    \/ \E message \in Contents : ChatRequest(message)
    \/ \E outcome \in ChatOutcomes : ChatReply(outcome)

SpecChat == InitSession /\ [][NextChat]_vars

\* C40: when the language-model call of a chat request failed, the history
\* of the session is what it was before the request and the request is
\* answered with an error; when it succeeded, the history is what it was
\* with the user message and then the assistant reply appended, nothing
\* else, and the session is saved with update_session.  Between the start
\* of the request and the end of the call the history is not touched.
C40_ChatHistoryOnlyOnSuccess ==
    [][ /\ (answer'.op = "chat" /\ answer'.phase = "llm")
           => subject'.messages = subject.messages
        /\ (answer.op = "chat" /\ answer.phase = "llm" /\ answer'.phase = "done")
           => IF answer'.status = 200
              THEN /\ subject'.messages =
                         subject.messages
                         \o << [role |-> "user", content |-> answer.message],
                               [role |-> "assistant", content |-> answer'.response] >>
                   /\ answer'.store_calls = <<"update_session">>
              ELSE /\ answer'.status = 500
                   /\ subject'.messages = subject.messages
                   /\ answer'.store_calls = <<>>
      ]_vars

\* A request on a session that holds an earlier exchange failed.
C40_Witness ==
    /\ answer.op = "chat" /\ answer.phase = "done"
    /\ answer.status = 500
    /\ Len(subject.messages) = 2

====
